---------------------------- MODULE Spec2Model ----------------------------
(***************************************************************************)
(* Flare: risk assessment of shell commands.                               *)
(*                                                                         *)
(* The module models the analysis pipeline of the repository:              *)
(*   - scorer.ts        scoreRisk / determineRiskLevel                     *)
(*   - parser.ts        parseCommand and its helpers                       *)
(*   - package-vuln.ts  package extraction, queryOsv, the analyzer         *)
(*   - index.ts         the assess_command handler                         *)
(*                                                                         *)
(* Text is modelled as a sequence of atoms.  An atom is a string; every    *)
(* atom is one character, except LongWord, which stands for a run of       *)
(* LongRun letters "x" (a command of more than 10,000 characters cannot    *)
(* be scanned character by character).  The length of a text is the sum    *)
(* of the lengths of its atoms.                                            *)
(***************************************************************************)
EXTENDS Integers, Sequences, FiniteSets, TLC

VARIABLES
    \* ---- scorer (SpecScore) ----
    allFindings,    \* the findings handed to scoreRisk, in order
    actionPolicy,   \* the ActionPolicy handed to scoreRisk
    scored,         \* the RiskAssessment scoreRisk returned, or NoAssessment
    prevLevel,      \* the risk_level of the call before the last one, or NoValue
    \* ---- parser (SpecParse, SpecLift) ----
    command,        \* the string handed to parseCommand
    parsed,         \* what parseCommand did: threw, or the list it returned
    \* ---- handler (SpecAssess) ----
    config,         \* the Config loadConfig returned
    osvCache,       \* the oracle cache: [key, vulns] in insertion order
    requests,       \* the assess_command calls: where each one stands
    writeChain,     \* the lines handed to the write chain, in order
    \* ---- logger (SpecLog) ----
    logger,         \* logger.ts: its module state, its chains, the file system
    \* ---- dependency scan (SpecScan) ----
    scan            \* scanManifest: where the one call stands

scoreVars == <<allFindings, actionPolicy, scored, prevLevel>>
parseVars == <<command, parsed>>
handlerVars == <<config, osvCache, requests, writeChain>>
assessVars == <<handlerVars, logger, scan>>
vars == <<scoreVars, parseVars, assessVars>>

\* JavaScript's undefined / a value not there yet.
NoValue == "undefined"
\* JavaScript's null.
Null == "null"
\* An optional field that is not present in an object.  Optional booleans
\* are "true", "false" or Absent.
Absent == "absent"

\* No assessment yet.
NoAssessment ==
    [risk_level |-> NoValue, action |-> NoValue, summary |-> NoValue,
     details |-> <<>>, partial |-> Absent]

(***************************************************************************)
(* Bounds of the model.                                                    *)
(***************************************************************************)
MaxFindings == 3
\* The number of pieces a command of SpecParse is built from.
MaxPieces == 4
\* The length of the long run of letters.
LongRun == 9996
\* The number of pieces a command of SpecLift is built from.
MaxLiftPieces == 5
\* The number of requests of SpecAssess.
MaxRequests == 2

(***************************************************************************)
(* Generic helpers.                                                        *)
(***************************************************************************)
Range(s) == {s[i] : i \in 1..Len(s)}

RECURSIVE Count(_, _, _)
\* findings.filter(f => f.severity === sev).length
Count(fs, sev, i) ==
    IF i > Len(fs) THEN 0
    ELSE (IF fs[i].severity = sev THEN 1 ELSE 0) + Count(fs, sev, i + 1)

RECURSIVE FlatMapFindings(_, _)
\* results.flatMap(r => r.findings)
FlatMapFindings(results, i) ==
    IF i > Len(results) THEN <<>>
    ELSE results[i].findings \o FlatMapFindings(results, i + 1)

(***************************************************************************)
(* scorer.ts                                                               *)
(***************************************************************************)
SEVERITY_ORDER == <<"none", "low", "medium", "high", "critical">>

RiskLevels == Range(SEVERITY_ORDER)
Actions == {"run", "warn", "ask"}

DEFAULT_ACTION_POLICY ==
    [none |-> "run", low |-> "run", medium |-> "warn", high |-> "ask",
     critical |-> "ask"]

\* SEVERITY_ORDER.indexOf(level): zero-based, -1 when not found.
severityIndex(level) ==
    IF level \in RiskLevels
    THEN (CHOOSE i \in 1..Len(SEVERITY_ORDER) : SEVERITY_ORDER[i] = level) - 1
    ELSE -1

RECURSIVE MaxLevelLoop_Inverted(_, _, _)
\* Mutant of MaxLevelLoop: the comparison is the wrong way round.
MaxLevelLoop_Inverted(fs, i, maxLevel) ==
    IF i > Len(fs) THEN maxLevel
    ELSE IF severityIndex(fs[i].severity) < severityIndex(maxLevel)
         THEN MaxLevelLoop_Inverted(fs, i + 1, fs[i].severity)
         ELSE MaxLevelLoop_Inverted(fs, i + 1, maxLevel)

RECURSIVE MaxLevelLoop(_, _, _)
\* The loop of determineRiskLevel that finds the highest individual severity.
MaxLevelLoop(fs, i, maxLevel) ==
    IF i > Len(fs) THEN maxLevel
    ELSE IF severityIndex(fs[i].severity) > severityIndex(maxLevel)
         THEN MaxLevelLoop(fs, i + 1, fs[i].severity)
         ELSE MaxLevelLoop(fs, i + 1, maxLevel)

dangerousCombos ==
    << <<"permissions", "network">>,
       <<"permissions", "sensitive-path">>,
       <<"network", "sensitive-path">> >>

\* Mutant of determineRiskLevel: the category pairs are not looked at.
determineRiskLevel_NoCombos(fs) ==
    LET maxLevel == MaxLevelLoop(fs, 1, "none")
        criticalCount == Count(fs, "critical", 1)
        highCount == Count(fs, "high", 1)
        mediumCount == Count(fs, "medium", 1)
    IN  IF criticalCount >= 1 THEN "critical"
        ELSE IF highCount >= 2 THEN "critical"
        ELSE IF mediumCount >= 3 THEN "high"
        ELSE maxLevel

\* Mutant of determineRiskLevel: exactly two highs amplify, three do not.
determineRiskLevel_ExactlyTwo(fs) ==
    LET maxLevel == MaxLevelLoop(fs, 1, "none")
        criticalCount == Count(fs, "critical", 1)
        highCount == Count(fs, "high", 1)
        mediumCount == Count(fs, "medium", 1)
        categories == {fs[i].category : i \in 1..Len(fs)}
    IN  IF criticalCount >= 1 THEN "critical"
        ELSE IF highCount = 2 THEN "critical"
        ELSE IF /\ highCount >= 1
                /\ mediumCount >= 1
                /\ \E k \in 1..Len(dangerousCombos) :
                       /\ dangerousCombos[k][1] \in categories
                       /\ dangerousCombos[k][2] \in categories
             THEN "critical"
        ELSE IF mediumCount >= 3 THEN "high"
        ELSE maxLevel

determineRiskLevel(fs) ==
    LET maxLevel == MaxLevelLoop(fs, 1, "none")
        criticalCount == Count(fs, "critical", 1)
        highCount == Count(fs, "high", 1)
        mediumCount == Count(fs, "medium", 1)
        categories == {fs[i].category : i \in 1..Len(fs)}
    IN  IF criticalCount >= 1 THEN "critical"
        ELSE IF highCount >= 2 THEN "critical"
        ELSE IF /\ highCount >= 1
                /\ mediumCount >= 1
                /\ \E k \in 1..Len(dangerousCombos) :
                       /\ dangerousCombos[k][1] \in categories
                       /\ dangerousCombos[k][2] \in categories
             THEN "critical"
        ELSE IF mediumCount >= 3 THEN "high"
        ELSE maxLevel

levelLabel ==
    [none |-> "No issues", low |-> "Low risk", medium |-> "Medium risk",
     high |-> "High risk", critical |-> "Critical risk"]

\* The details of an assessment: category, severity and description of each
\* finding, in the order of the findings.
Details(fs) ==
    [i \in 1..Len(fs) |->
        [category |-> fs[i].category, severity |-> fs[i].severity,
         description |-> fs[i].description]]

\* ...(partial && { partial }): the field is there only when it is true.
PartialField(partial) == IF partial THEN "true" ELSE Absent

\* Mutant of scoreRisk: without findings the action is the default policy's,
\* not the supplied policy's.
scoreRisk_DefaultWhenEmpty(results, policy) ==
    LET fs == FlatMapFindings(results, 1)
        partial == \E i \in 1..Len(results) : results[i].partial = "true"
    IN  IF Len(fs) = 0
        THEN [risk_level |-> "none",
              action |-> DEFAULT_ACTION_POLICY["none"],
              summary |-> "No security concerns detected.",
              details |-> <<>>,
              partial |-> PartialField(partial)]
        ELSE LET riskLevel == determineRiskLevel(fs)
             IN  [risk_level |-> riskLevel,
                  action |-> policy[riskLevel],
                  summary |-> levelLabel[riskLevel],
                  details |-> Details(fs),
                  partial |-> PartialField(partial)]

\* scoreRisk(results, actionPolicy).  Of the two text fields the summary is
\* kept as its level label; the recommendation is not modelled.
scoreRisk(results, policy) ==
    LET fs == FlatMapFindings(results, 1)
        partial == \E i \in 1..Len(results) : results[i].partial = "true"
    IN  IF Len(fs) = 0
        THEN [risk_level |-> "none",
              action |-> policy["none"],
              summary |-> "No security concerns detected.",
              details |-> <<>>,
              partial |-> PartialField(partial)]
        ELSE LET riskLevel == determineRiskLevel(fs)
             IN  [risk_level |-> riskLevel,
                  action |-> policy[riskLevel],
                  summary |-> levelLabel[riskLevel],
                  details |-> Details(fs),
                  partial |-> PartialField(partial)]

(***************************************************************************)
(* Text: sequences of atoms.                                               *)
(***************************************************************************)
\* The atoms of a native string, one per character.
Chars(str) == [i \in 1..Len(str) |-> SubSeq(str, i, i)]

RECURSIVE Rep(_, _)
\* str repeated n times.
Rep(str, n) ==
    IF n = 0 THEN ""
    ELSE IF n % 2 = 1 THEN str \o Rep(str, n - 1)
    ELSE LET half == Rep(str, n \div 2) IN half \o half

\* A run of LongRun letters, held as one atom.
LongWord == Rep("x", LongRun)

\* s[i] in JavaScript (the model counts from 1): undefined out of range.
At(s, i) == IF i >= 1 /\ i <= Len(s) THEN s[i] ELSE NoValue

RECURSIVE StrLen(_)
\* string.length: the number of characters.
StrLen(s) == IF s = <<>> THEN 0 ELSE Len(Head(s)) + StrLen(Tail(s))

RECURSIVE Flat(_)
\* The native string a text stands for.
Flat(s) == IF s = <<>> THEN "" ELSE Head(s) \o Flat(Tail(s))

\* The backtick.  A string of the module cannot hold the character itself;
\* this atom stands for it wherever the code reads or writes one.
Backtick == "^"

\* \s of a regular expression, and what trim() removes.
IsSpace(a) == a \in {" ", "\t", "\n", "\r", "\f"}

RECURSIVE SkipSpace(_, _)
\* The first index from i on that holds no white space (Len + 1 if none).
SkipSpace(s, i) ==
    IF i <= Len(s) /\ IsSpace(s[i]) THEN SkipSpace(s, i + 1) ELSE i

RECURSIVE SkipNonSpace(_, _)
\* The first index from i on that holds white space (Len + 1 if none).
SkipNonSpace(s, i) ==
    IF i <= Len(s) /\ ~IsSpace(s[i]) THEN SkipNonSpace(s, i + 1) ELSE i

RECURSIVE LastNonSpace(_, _)
\* The last index up to i that holds no white space (0 if none).
LastNonSpace(s, i) ==
    IF i >= 1 /\ IsSpace(s[i]) THEN LastNonSpace(s, i - 1) ELSE i

\* String.prototype.trim
trim(s) == SubSeq(s, SkipSpace(s, 1), LastNonSpace(s, Len(s)))

(***************************************************************************)
(* parser.ts                                                               *)
(***************************************************************************)
MAX_COMMAND_LENGTH == 10000

\* os.homedir()
HomeDir == "/h"

\* expandTilde(path), on a native string.
expandTilde(path) ==
    IF path = "~" THEN HomeDir
    ELSE IF Len(path) >= 2 /\ SubSeq(path, 1, 2) = "~/"
         THEN HomeDir \o SubSeq(path, 2, Len(path))
         ELSE path

RECURSIVE SplitLoop(_, _, _, _, _, _)
\* The loop of splitByOperator from index i on, and the final push.
SplitLoop(cmd, i, current, inQuote, quoteChar, results) ==
    IF i > Len(cmd)
    THEN IF trim(current) # <<>>
         THEN Append(results, [segment |-> current, operator |-> Null])
         ELSE results
    ELSE
    LET ch == cmd[i]
        next == At(cmd, i + 1)
        prev == At(cmd, i - 1)
    IN  IF ch = "\\" /\ ~inQuote
        THEN SplitLoop(cmd, i + 2,
                       current \o <<ch>> \o
                           (IF next = NoValue THEN <<>> ELSE <<next>>),
                       inQuote, quoteChar, results)
        ELSE IF (ch = "\"" \/ ch = "'") /\ prev # "\\"
        THEN IF ~inQuote
             THEN SplitLoop(cmd, i + 1, Append(current, ch), TRUE, ch, results)
             ELSE IF ch = quoteChar
             THEN SplitLoop(cmd, i + 1, Append(current, ch), FALSE, quoteChar,
                            results)
             ELSE SplitLoop(cmd, i + 1, Append(current, ch), inQuote,
                            quoteChar, results)
        ELSE IF inQuote
        THEN SplitLoop(cmd, i + 1, Append(current, ch), inQuote, quoteChar,
                       results)
        ELSE IF (ch = "&" /\ next = "&") \/ (ch = "|" /\ next = "|")
        THEN SplitLoop(cmd, i + 2, <<>>, inQuote, quoteChar,
                       Append(results,
                              [segment |-> current, operator |-> ch \o next]))
        ELSE IF ch = "|" \/ ch = ";"
        THEN SplitLoop(cmd, i + 1, <<>>, inQuote, quoteChar,
                       Append(results, [segment |-> current, operator |-> ch]))
        ELSE SplitLoop(cmd, i + 1, Append(current, ch), inQuote, quoteChar,
                       results)

\* splitByOperator(cmd): the list of {segment, operator}.
splitByOperator(cmd) == SplitLoop(cmd, 1, <<>>, FALSE, "", <<>>)

RECURSIVE TokenLoop(_, _, _, _, _, _)
\* The loop of tokenize from index i on, and the final push.  Tokens are
\* native strings.
TokenLoop(segment, i, current, inQuote, quoteChar, tokens) ==
    IF i > Len(segment)
    THEN IF current # "" THEN Append(tokens, current) ELSE tokens
    ELSE
    LET ch == segment[i]
        next == At(segment, i + 1)
    IN  IF ch = "\\" /\ ~inQuote
        THEN TokenLoop(segment, i + 2,
                       current \o (IF next = NoValue THEN "" ELSE next),
                       inQuote, quoteChar, tokens)
        ELSE IF (ch = "\"" \/ ch = "'") /\ (i = 1 \/ segment[i - 1] # "\\")
        THEN IF ~inQuote
             THEN TokenLoop(segment, i + 1, current, TRUE, ch, tokens)
             ELSE IF ch = quoteChar
             THEN TokenLoop(segment, i + 1, current, FALSE, quoteChar, tokens)
             ELSE TokenLoop(segment, i + 1, current \o ch, inQuote, quoteChar,
                            tokens)
        ELSE IF inQuote
        THEN TokenLoop(segment, i + 1, current \o ch, inQuote, quoteChar,
                       tokens)
        ELSE IF ch = " " \/ ch = "\t"
        THEN IF current # ""
             THEN TokenLoop(segment, i + 1, "", inQuote, quoteChar,
                            Append(tokens, current))
             ELSE TokenLoop(segment, i + 1, current, inQuote, quoteChar,
                            tokens)
        ELSE TokenLoop(segment, i + 1, current \o ch, inQuote, quoteChar,
                       tokens)

\* tokenize(segment)
tokenize(segment) == TokenLoop(segment, 1, "", FALSE, "", <<>>)

\* One match of /(>>|>)\s*(\S+)/ that starts at index p, where s[p] is ">".
\* to = 0 when there is none; else the match is s[p..to].
RedirectAt(s, p) ==
    LET q2 == SkipSpace(s, p + 2)
        r2 == SkipNonSpace(s, q2)
        q1 == SkipSpace(s, p + 1)
        r1 == SkipNonSpace(s, q1)
    IN  IF At(s, p + 1) = ">" /\ r2 > q2
        THEN [to |-> r2 - 1, type |-> ">>", target |-> SubSeq(s, q2, r2 - 1)]
        ELSE IF r1 > q1
        THEN [to |-> r1 - 1, type |-> ">", target |-> SubSeq(s, q1, r1 - 1)]
        ELSE [to |-> 0, type |-> "", target |-> <<>>]

RECURSIVE RedirectLoop(_, _)
\* The matches of the redirect pattern from index p on, left to right.
RedirectLoop(s, p) ==
    IF p > Len(s) THEN <<>>
    ELSE IF s[p] = ">" /\ RedirectAt(s, p).to # 0
    THEN LET m == RedirectAt(s, p)
         IN  <<[type |-> m.type, target |-> expandTilde(Flat(m.target))]>>
             \o RedirectLoop(s, m.to + 1)
    ELSE RedirectLoop(s, p + 1)

\* extractRedirects(segment)
extractRedirects(segment) == RedirectLoop(segment, 1)

RECURSIVE RemoveLoop(_, _)
\* The text from index p on with every match of the redirect pattern cut.
RemoveLoop(s, p) ==
    IF p > Len(s) THEN <<>>
    ELSE IF s[p] = ">" /\ RedirectAt(s, p).to # 0
    THEN RemoveLoop(s, RedirectAt(s, p).to + 1)
    ELSE <<s[p]>> \o RemoveLoop(s, p + 1)

\* removeRedirects(segment)
removeRedirects(segment) == trim(RemoveLoop(segment, 1))

RECURSIVE CloseOf(_, _, _)
\* The inner loop of the two balanced scans: the index of the parenthesis
\* that brings depth to 0, scanning from j; 0 when the text ends first.
CloseOf(s, j, depth) ==
    IF j > Len(s) THEN 0
    ELSE LET d == IF s[j] = "(" THEN depth + 1
                  ELSE IF s[j] = ")" THEN depth - 1
                  ELSE depth
         IN  IF d = 0 THEN j ELSE CloseOf(s, j + 1, d)

RECURSIVE BalancedLoop(_, _)
\* extractBalancedSubshells(command, out) from index i on: the bodies it
\* pushes, in the order it pushes them.
BalancedLoop(s, i) ==
    IF i > Len(s) THEN <<>>
    ELSE IF s[i] = "$" /\ At(s, i + 1) = "(" /\ CloseOf(s, i + 2, 1) # 0
    THEN LET j == CloseOf(s, i + 2, 1)
             inner == SubSeq(s, i + 2, j - 1)
         IN  <<inner>> \o BalancedLoop(inner, 1) \o BalancedLoop(s, j + 1)
    ELSE BalancedLoop(s, i + 1)

extractBalancedSubshells(cmd) == BalancedLoop(cmd, 1)

RECURSIVE NextTick(_, _)
\* The index of the first backtick from q on; 0 when there is none.
NextTick(s, q) ==
    IF q > Len(s) THEN 0
    ELSE IF s[q] = Backtick THEN q
    ELSE NextTick(s, q + 1)

RECURSIVE BacktickLoop(_, _)
\* The groups of the matches of the backtick pattern (a backtick, one or
\* more other characters, a backtick) from index p on.
BacktickLoop(s, p) ==
    IF p > Len(s) THEN <<>>
    ELSE IF s[p] = Backtick /\ NextTick(s, p + 1) > p + 1
    THEN <<SubSeq(s, p + 1, NextTick(s, p + 1) - 1)>>
         \o BacktickLoop(s, NextTick(s, p + 1) + 1)
    ELSE BacktickLoop(s, p + 1)

extractBackticks(cmd) == BacktickLoop(cmd, 1)

RECURSIVE ProcessLoop(_, _)
\* extractProcessSubstitutions(command, out) from index i on.
ProcessLoop(s, i) ==
    IF i > Len(s) THEN <<>>
    ELSE IF (s[i] = "<" \/ s[i] = ">") /\ At(s, i + 1) = "("
            /\ CloseOf(s, i + 2, 1) # 0
    THEN LET j == CloseOf(s, i + 2, 1)
         IN  <<SubSeq(s, i + 2, j - 1)>> \o ProcessLoop(s, j + 1)
    ELSE ProcessLoop(s, i + 1)

extractProcessSubstitutions(cmd) == ProcessLoop(cmd, 1)

\* extractHeredocBodies(command): every match of its pattern holds two line
\* feeds; a command without a line feed has no heredoc body.
extractHeredocBodies(cmd) == <<>>

RECURSIVE JoinBodies(_, _)
\* subshells.join(" ; ") from index k on.
JoinBodies(subshells, k) ==
    IF k > Len(subshells) THEN <<>>
    ELSE IF k = Len(subshells) THEN subshells[k]
    ELSE subshells[k] \o Chars(" ; ") \o JoinBodies(subshells, k + 1)

\* The lifted bodies, in the order expandSubshells collects them.
Subshells(cmd) ==
    extractBalancedSubshells(cmd) \o extractBackticks(cmd)
        \o extractProcessSubstitutions(cmd)
        \o extractHeredocBodies(cmd)

\* expandSubshells(command)
expandSubshells(cmd) ==
    IF Len(Subshells(cmd)) = 0 THEN cmd
    ELSE cmd \o Chars(" ; ") \o JoinBodies(Subshells(cmd), 1)

\* tokens.slice(1).map(expandTilde)
ArgsOf(tokens) ==
    [k \in 1..(Len(tokens) - 1) |-> expandTilde(tokens[k + 1])]

RECURSIVE SegmentLoop_OperatorBefore(_, _, _)
\* A variant of the loop that gives each segment the operator before it.
SegmentLoop_OperatorBefore(segments, i, results) ==
    IF i > Len(segments) THEN results
    ELSE LET trimmed == trim(segments[i].segment)
             cleaned == removeRedirects(trimmed)
             tokens == tokenize(cleaned)
         IN  IF trimmed = <<>>
             THEN SegmentLoop_OperatorBefore(segments, i + 1, results)
             ELSE SegmentLoop_OperatorBefore(segments, i + 1,
                     Append(results,
                        [verb |-> IF Len(tokens) > 0 THEN tokens[1] ELSE "",
                         args |-> ArgsOf(tokens),
                         operator |-> IF i = 1 THEN Null
                                      ELSE segments[i - 1].operator,
                         redirects |-> extractRedirects(trimmed),
                         rawSegment |-> trimmed,
                         position |-> Len(results)]))

RECURSIVE SegmentLoop(_, _, _)
\* The loop of parseCommand over the split segments.
SegmentLoop(segments, i, results) ==
    IF i > Len(segments) THEN results
    ELSE LET trimmed == trim(segments[i].segment)
             cleaned == removeRedirects(trimmed)
             tokens == tokenize(cleaned)
         IN  IF trimmed = <<>>
             THEN SegmentLoop(segments, i + 1, results)
             ELSE SegmentLoop(segments, i + 1,
                     Append(results,
                        [verb |-> IF Len(tokens) > 0 THEN tokens[1] ELSE "",
                         args |-> ArgsOf(tokens),
                         operator |-> segments[i].operator,
                         redirects |-> extractRedirects(trimmed),
                         rawSegment |-> trimmed,
                         position |-> Len(results)]))

\* A variant of parseCommand that tests the length after the subshell
\* bodies are appended.
parseCommand_LengthAfterLift(cmd) ==
    IF StrLen(expandSubshells(cmd)) > MAX_COMMAND_LENGTH
    THEN [threw |-> TRUE, message |-> "Command too long", results |-> <<>>]
    ELSE [threw |-> FALSE, message |-> "",
          results |->
              SegmentLoop(splitByOperator(expandSubshells(cmd)), 1, <<>>)]

\* parseCommand(command): threw, or the ParsedCommand list.
parseCommand(cmd) ==
    IF StrLen(cmd) > MAX_COMMAND_LENGTH
    THEN [threw |-> TRUE, message |-> "Command too long", results |-> <<>>]
    ELSE [threw |-> FALSE, message |-> "",
          results |->
              SegmentLoop(splitByOperator(expandSubshells(cmd)), 1, <<>>)]

\* Nothing parsed yet.
NotParsed == [threw |-> FALSE, message |-> NoValue, results |-> <<>>]

(***************************************************************************)
(* Strings: the operations the analyzers apply to verbs, arguments and     *)
(* raw segments (native strings; the model counts indices from 1).         *)
(***************************************************************************)
\* The character of s at index i.
CharAt(s, i) == SubSeq(s, i, i)

\* sub occurs in s at index i.
MatchAt(s, i, sub) ==
    /\ i >= 1
    /\ i + Len(sub) - 1 <= Len(s)
    /\ SubSeq(s, i, i + Len(sub) - 1) = sub

\* String.prototype.startsWith / endsWith / includes
startsWith(s, p) == MatchAt(s, 1, p)
endsWith(s, p) == MatchAt(s, Len(s) - Len(p) + 1, p)
includes(s, sub) == \E i \in 1..(Len(s) + 1) : MatchAt(s, i, sub)

\* String.prototype.indexOf / lastIndexOf: 0 when sub does not occur (the
\* code's -1), else the index counted from 1 (the code's index plus one).
indexOf(s, sub) ==
    IF includes(s, sub)
    THEN CHOOSE i \in 1..(Len(s) + 1) :
             MatchAt(s, i, sub) /\ \A k \in 1..(i - 1) : ~MatchAt(s, k, sub)
    ELSE 0

lastIndexOf(s, sub) ==
    IF includes(s, sub)
    THEN CHOOSE i \in 1..(Len(s) + 1) :
             /\ MatchAt(s, i, sub)
             /\ \A k \in (i + 1)..(Len(s) + 1) : ~MatchAt(s, k, sub)
    ELSE 0

\* String.prototype.slice(from) with from counted from 1.
sliceFrom(s, from) == SubSeq(s, from, Len(s))

UpperLetters == "ABCDEFGHIJKLMNOPQRSTUVWXYZ"
LowerLetters == "abcdefghijklmnopqrstuvwxyz"
Digits == "0123456789"

\* c is one of the characters of the string set.
OneOf(c, set) == Len(c) = 1 /\ includes(set, c)

LowerChar(c) ==
    IF OneOf(c, UpperLetters)
    THEN CharAt(LowerLetters, indexOf(UpperLetters, c))
    ELSE c

RECURSIVE toLowerCase(_)
\* String.prototype.toLowerCase
toLowerCase(s) ==
    IF s = "" THEN ""
    ELSE LowerChar(CharAt(s, 1)) \o toLowerCase(sliceFrom(s, 2))

\* \w of a regular expression.
IsWordChar(c) ==
    OneOf(c, UpperLetters) \/ OneOf(c, LowerLetters) \/ OneOf(c, Digits)
        \/ c = "_"

\* \s of a regular expression.
IsSpaceChar(c) == c \in {" ", "\t", "\n", "\r", "\f"}

\* /\bw\b/ matches s at index i (w starts and ends with a word character).
WordAt(s, i, w) ==
    /\ MatchAt(s, i, w)
    /\ (i = 1 \/ ~IsWordChar(CharAt(s, i - 1)))
    /\ (i + Len(w) > Len(s) \/ ~IsWordChar(CharAt(s, i + Len(w))))

\* /\bw\b/.test(s)
HasWord(s, w) == \E i \in 1..Len(s) : WordAt(s, i, w)

\* Every character of s is one of the characters of set.
AllOf(s, set) == \A i \in 1..Len(s) : OneOf(CharAt(s, i), set)

RECURSIVE join(_, _)
\* Array.prototype.join
join(strs, sep) ==
    IF Len(strs) = 0 THEN ""
    ELSE IF Len(strs) = 1 THEN strs[1]
    ELSE strs[1] \o sep \o join(Tail(strs), sep)

RECURSIVE Flatten(_, _)
\* The concatenation of the sequences of a sequence, from index i on.
Flatten(ss, i) == IF i > Len(ss) THEN <<>> ELSE ss[i] \o Flatten(ss, i + 1)

\* The arguments that are not options: args.filter(a => !a.startsWith("-"))
NonOptions(args) == SelectSeq(args, LAMBDA a : ~startsWith(a, "-"))

\* A Finding.
Finding(category, severity, description) ==
    [category |-> category, severity |-> severity,
     description |-> description]

\* The dash the descriptions are written with.
Dash == " -- "

\* A piece of text in code quotes.
Code(str) == Backtick \o str \o Backtick

(***************************************************************************)
(* analyzers/destructive.ts                                                *)
(***************************************************************************)
DANGEROUS_GIT_PATTERNS ==
    << [args |-> <<"push", "-f">>,
        description |-> "Force push" \o Dash \o "overwrites remote history"],
       [args |-> <<"push", "--force">>,
        description |-> "Force push" \o Dash \o "overwrites remote history"],
       [args |-> <<"push", "--force-with-lease">>,
        description |-> "Force push (with lease)" \o Dash
                            \o "may overwrite remote history"],
       [args |-> <<"reset", "--hard">>,
        description |-> "Hard reset" \o Dash
                            \o "discards all uncommitted changes"],
       [args |-> <<"clean", "-f">>,
        description |-> "Force clean" \o Dash
                            \o "permanently deletes untracked files"] >>

\* a.startsWith("-") && !a.startsWith("--") && a.includes(c)
ShortFlagWith(a, c) ==
    startsWith(a, "-") /\ ~startsWith(a, "--") /\ includes(a, c)

\* rm with force/recursive flags
RmFindings(cmd) ==
    LET flags == SelectSeq(cmd.args, LAMBDA a : startsWith(a, "-"))
        hasForce ==
            \E i \in 1..Len(flags) :
                \/ flags[i] \in {"-f", "-rf", "-fr"}
                \/ startsWith(flags[i], "--force")
                \/ ShortFlagWith(flags[i], "f")
        hasRecursive ==
            \E i \in 1..Len(flags) :
                \/ flags[i] \in {"-r", "-R", "-rf", "-fr", "-rR", "-Rf"}
                \/ startsWith(flags[i], "--recursive")
                \/ ShortFlagWith(flags[i], "r")
                \/ ShortFlagWith(flags[i], "R")
        targets == NonOptions(cmd.args)
        isRoot == \E i \in 1..Len(targets) : targets[i] \in {"/", "/*"}
        isHome ==
            \E i \in 1..Len(targets) :
                \/ targets[i] \in {"~", "$HOME", HomeDir, HomeDir \o "/"}
                \/ startsWith(targets[i], "~/")
        isWildcard == \E i \in 1..Len(targets) : targets[i] = "*"
    IN  IF cmd.verb # "rm" THEN <<>>
        ELSE IF hasForce /\ hasRecursive
        THEN IF isRoot
             THEN <<Finding("destructive", "critical",
                      Code("rm -rf /") \o Dash
                      \o "irreversible deletion of all files on the system")>>
             ELSE IF isHome
             THEN <<Finding("destructive", "critical",
                      Code("rm -rf ~") \o Dash
                      \o "irreversible deletion of entire home directory")>>
             ELSE IF isWildcard
             THEN <<Finding("destructive", "high",
                      Code("rm -rf *") \o Dash
                      \o "irreversible deletion of all files in current directory")>>
             ELSE <<Finding("destructive", "medium",
                      Code("rm -rf " \o join(targets, " ")) \o Dash
                      \o "recursive forced deletion")>>
        ELSE IF hasForce \/ hasRecursive
        THEN <<Finding("destructive", "low",
                 Code("rm") \o " with "
                 \o (IF hasForce THEN "force" ELSE "recursive")
                 \o " flag on "
                 \o (IF join(targets, " ") # "" THEN join(targets, " ")
                     ELSE "unknown target"))>>
        ELSE <<>>

\* truncate, mkfs, shred, dd
VerbFindings(cmd) ==
    (IF cmd.verb = "truncate"
     THEN <<Finding("destructive", "medium",
              Code("truncate") \o Dash \o "empties file contents ("
              \o join(NonOptions(cmd.args), " ") \o ")")>>
     ELSE <<>>)
    \o (IF cmd.verb = "mkfs"
        THEN <<Finding("destructive", "critical",
                 Code("mkfs") \o Dash
                 \o "formats a filesystem, destroying all data on the device")>>
        ELSE <<>>)
    \o (IF cmd.verb = "shred"
        THEN <<Finding("destructive", "high",
                 Code("shred") \o Dash
                 \o "securely overwrites file(s), making data unrecoverable")>>
        ELSE <<>>)
    \o (IF cmd.verb = "dd"
        THEN LET ofs == SelectSeq(cmd.args, LAMBDA a : startsWith(a, "of="))
                 isDevice == Len(ofs) > 0 /\ includes(ofs[1], "of=/dev/")
             IN  IF isDevice
                 THEN <<Finding("destructive", "critical",
                          Code("dd") \o " writing directly to device ("
                          \o ofs[1] \o ")" \o Dash
                          \o "can destroy entire disk")>>
                 ELSE <<Finding("destructive", "high",
                          Code("dd") \o Dash
                          \o "low-level data copy, can overwrite files or devices")>>
        ELSE <<>>)

\* pattern.args.every(arg => cmd.args.some(a => a === arg))
GitMatches(cmd, pattern) ==
    \A k \in 1..Len(pattern.args) :
        \E j \in 1..Len(cmd.args) : cmd.args[j] = pattern.args[k]

\* Git dangerous operations: the first pattern that matches.
GitFindings(cmd) ==
    LET hits == {k \in 1..Len(DANGEROUS_GIT_PATTERNS) :
                    GitMatches(cmd, DANGEROUS_GIT_PATTERNS[k])}
    IN  IF cmd.verb # "git" \/ hits = {} THEN <<>>
        ELSE
        LET pattern ==
                DANGEROUS_GIT_PATTERNS[CHOOSE k \in hits :
                                           \A h \in hits : k <= h]
            targetsMain ==
                \E j \in 1..Len(cmd.args) :
                    \/ cmd.args[j] \in {"main", "master"}
                    \/ endsWith(cmd.args[j], "/main")
                    \/ endsWith(cmd.args[j], "/master")
        IN  IF /\ "push" \in Range(pattern.args)
               /\ ("-f" \in Range(pattern.args)
                      \/ "--force" \in Range(pattern.args))
            THEN <<Finding("destructive",
                     IF targetsMain THEN "critical" ELSE "high",
                     pattern.description
                     \o (IF targetsMain
                         THEN " (targeting main/master branch)" ELSE ""))>>
            ELSE <<Finding("destructive", "high", pattern.description)>>

\* The index after the white space that starts at index i (i if none).
RECURSIVE AfterSpace(_, _)
AfterSpace(s, i) ==
    IF i <= Len(s) /\ IsSpaceChar(CharAt(s, i)) THEN AfterSpace(s, i + 1)
    ELSE i

\* /\bw1\s+w2\b/ matches s at index i (s in lower case).
PhraseAt(s, i, w1, w2) ==
    /\ MatchAt(s, i, w1)
    /\ (i = 1 \/ ~IsWordChar(CharAt(s, i - 1)))
    /\ AfterSpace(s, i + Len(w1)) > i + Len(w1)
    /\ MatchAt(s, AfterSpace(s, i + Len(w1)), w2)
    /\ LET e == AfterSpace(s, i + Len(w1)) + Len(w2)
       IN  e > Len(s) \/ ~IsWordChar(CharAt(s, e))

\* The three patterns of SQL_DESTRUCTIVE, tested on a raw segment.
MatchesSqlDestructive(raw) ==
    LET s == toLowerCase(raw)
        NoNewline(a, b) == \A k \in a..b : CharAt(s, k) # "\n"
    IN  \/ \E i \in 1..Len(s) :
               \E kw \in {"database", "table", "schema", "index"} :
                   PhraseAt(s, i, "drop", kw)
        \/ \E i \in 1..Len(s) : PhraseAt(s, i, "truncate", "table")
        \/ \E i \in 1..Len(s) :
               /\ PhraseAt(s, i, "delete", "from")
               /\ \E w \in i..Len(s), e \in i..Len(s), o \in i..Len(s) :
                      /\ w >= AfterSpace(s, i + 6) + 4
                      /\ WordAt(s, w, "where")
                      /\ e >= w + 5
                      /\ CharAt(s, e) = "="
                      /\ o > e
                      /\ WordAt(s, o, "or")
                      /\ NoNewline(AfterSpace(s, i + 6) + 4, o - 1)

SqlFindings(cmd) ==
    IF MatchesSqlDestructive(Flat(cmd.rawSegment))
    THEN <<Finding("destructive", "critical",
             "SQL destructive operation detected: "
             \o Code(SubSeq(Flat(cmd.rawSegment), 1,
                        IF Len(Flat(cmd.rawSegment)) < 80
                        THEN Len(Flat(cmd.rawSegment)) ELSE 80)))>>
    ELSE <<>>

\* destructiveAnalyzer.analyze(parsed): the findings.
destructiveAnalyze(cmds) ==
    Flatten([i \in 1..Len(cmds) |->
                RmFindings(cmds[i]) \o VerbFindings(cmds[i])
                    \o GitFindings(cmds[i]) \o SqlFindings(cmds[i])], 1)

(***************************************************************************)
(* analyzers/permissions.ts                                                *)
(***************************************************************************)
SENSITIVE_SYSTEM_PATHS ==
    <<"/etc/", "/usr/bin/", "/usr/local/bin/", "/usr/sbin/", "/var/log/",
      "/boot/", "/sys/", "/proc/">>

DANGEROUS_MODES == {"777", "666", "o+w", "a+w", "o+rwx", "a+rwx"}

SensitiveVerbs ==
    {"rm", "chmod", "chown", "mkfs", "dd", "kill", "shutdown", "reboot"}

\* targets.some(t => SENSITIVE_SYSTEM_PATHS.some(p => t.startsWith(p)))
TargetsSensitive(targets) ==
    \E i \in 1..Len(targets), k \in 1..Len(SENSITIVE_SYSTEM_PATHS) :
        startsWith(targets[i], SENSITIVE_SYSTEM_PATHS[k])

\* /^[0-7]{3,4}$/ or /^[ugoa][+-][rwxst]+$/
IsMode(a) ==
    \/ Len(a) \in {3, 4} /\ AllOf(a, "01234567")
    \/ /\ Len(a) >= 3
       /\ OneOf(CharAt(a, 1), "ugoa")
       /\ OneOf(CharAt(a, 2), "+-")
       /\ AllOf(sliceFrom(a, 3), "rwxst")

\* sudo detection
SudoFindings(cmd) ==
    IF cmd.verb # "sudo" THEN <<>>
    ELSE LET innerVerb == IF Len(cmd.args) > 0 THEN cmd.args[1] ELSE "unknown"
         IN  IF innerVerb \in SensitiveVerbs
             THEN <<Finding("permissions", "high",
                      Code("sudo " \o innerVerb) \o Dash
                      \o "elevated privileges with a sensitive operation")>>
             ELSE <<Finding("permissions", "low",
                      Code("sudo " \o innerVerb) \o Dash
                      \o "command runs with root privileges")>>

\* The arguments of the command behind an optional sudo.
InnerArgs(cmd) == IF cmd.verb = "sudo" THEN Tail(cmd.args) ELSE cmd.args

\* cmd.verb === v || (cmd.verb === "sudo" && cmd.args[0] === v)
RunsVerb(cmd, v) ==
    cmd.verb = v \/ (cmd.verb = "sudo" /\ Len(cmd.args) > 0 /\ cmd.args[1] = v)

\* chmod detection
ChmodFindings(cmd) ==
    IF ~RunsVerb(cmd, "chmod") THEN <<>>
    ELSE
    LET args == InnerArgs(cmd)
        modes == SelectSeq(args, LAMBDA a : ~startsWith(a, "-") /\ IsMode(a))
        hasMode == Len(modes) > 0
        modeArg == IF hasMode THEN modes[1] ELSE NoValue
        targets ==
            SelectSeq(args,
                LAMBDA a : ~startsWith(a, "-") /\ (~hasMode \/ a # modeArg))
        isDangerous == hasMode /\ modeArg \in DANGEROUS_MODES
        targetsSensitive == TargetsSensitive(targets)
    IN  IF isDangerous /\ targetsSensitive
        THEN <<Finding("permissions", "critical",
                 Code("chmod " \o modeArg) \o " on system path ("
                 \o join(targets, ", ") \o ")" \o Dash
                 \o "removes all access restrictions")>>
        ELSE IF isDangerous
        THEN <<Finding("permissions", "high",
                 Code("chmod " \o modeArg) \o Dash
                 \o "makes file(s) world-writable ("
                 \o (IF join(targets, ", ") # "" THEN join(targets, ", ")
                     ELSE "unknown target") \o ")")>>
        ELSE IF targetsSensitive
        THEN <<Finding("permissions", "medium",
                 Code("chmod") \o " on system path: " \o join(targets, ", "))>>
        ELSE <<>>

\* args.indexOf(a), counted from 1.
FirstIndex(args, a) == CHOOSE i \in 1..Len(args) :
                           args[i] = a /\ \A k \in 1..(i - 1) : args[k] # a

\* chown detection
ChownFindings(cmd) ==
    IF ~RunsVerb(cmd, "chown") THEN <<>>
    ELSE
    LET args == InnerArgs(cmd)
        targets ==
            SelectSeq(args,
                LAMBDA a : /\ ~startsWith(a, "-")
                           /\ ~includes(a, ":")
                           /\ FirstIndex(args, a) > 1)
        targetsSensitive == TargetsSensitive(targets)
    IN  <<Finding("permissions",
            IF targetsSensitive THEN "high" ELSE "medium",
            Code("chown") \o Dash \o "changes file ownership"
            \o (IF targetsSensitive THEN " on system path" ELSE "")
            \o " ("
            \o (IF join(targets, ", ") # "" THEN join(targets, ", ")
                ELSE "unknown target") \o ")")>>

\* permissionsAnalyzer.analyze(parsed): the findings.
permissionsAnalyze(cmds) ==
    Flatten([i \in 1..Len(cmds) |->
                SudoFindings(cmds[i]) \o ChmodFindings(cmds[i])
                    \o ChownFindings(cmds[i])], 1)

(***************************************************************************)
(* analyzers/sensitive-path.ts                                             *)
(***************************************************************************)
WRITE_VERBS ==
    {"cp", "mv", "tee", "dd", "install", "rsync", "sed", "awk", "nano",
     "vim", "vi", "emacs"}

READ_VERBS ==
    {"cat", "head", "tail", "less", "more", "bat", "grep", "rg", "awk",
     "sed", "wc", "sort", "uniq"}

DEFAULT_PATTERNS ==
    << [glob |-> "~/.ssh/*", label |-> "SSH keys and configuration"],
       [glob |-> "~/.aws/*", label |-> "AWS credentials"],
       [glob |-> "~/.config/gcloud/*", label |-> "GCloud credentials"],
       [glob |-> "~/.claude/*", label |-> "Claude agent configuration"],
       [glob |-> ".cursorrules", label |-> "Cursor agent rules"],
       [glob |-> "CLAUDE.md", label |-> "Claude instructions file"],
       [glob |-> "/etc/passwd", label |-> "System user database"],
       [glob |-> "/etc/shadow", label |-> "System password hashes"],
       [glob |-> "/etc/sudoers", label |-> "Sudo configuration"],
       [glob |-> ".env", label |-> "Environment secrets"],
       [glob |-> "*.pem", label |-> "PEM certificate/key"],
       [glob |-> "*id_rsa*", label |-> "RSA private key"],
       [glob |-> "*.key", label |-> "Private key file"],
       [glob |-> "/usr/local/bin/*", label |-> "System binary directory"],
       [glob |-> "/usr/bin/*", label |-> "System binary directory"] >>

RECURSIVE GlobMatches(_, _)
\* The pattern globToRegex builds from a glob matches the whole of str: a
\* star is [^/]*, every other character of the default patterns is itself.
GlobMatches(glob, str) ==
    IF glob = "" THEN str = ""
    ELSE IF CharAt(glob, 1) = "*"
    THEN \E k \in 0..Len(str) :
             /\ ~includes(SubSeq(str, 1, k), "/")
             /\ GlobMatches(sliceFrom(glob, 2), sliceFrom(str, k + 1))
    ELSE /\ str # ""
         /\ CharAt(str, 1) = CharAt(glob, 1)
         /\ GlobMatches(sliceFrom(glob, 2), sliceFrom(str, 2))

\* globToRegex(pattern).test(path): (^|/) escaped $
RegexTest(glob, path) ==
    \E start \in 1..(Len(path) + 1) :
        /\ (start = 1 \/ CharAt(path, start - 1) = "/")
        /\ GlobMatches(expandTilde(glob), sliceFrom(path, start))

\* path.split("/").pop()
Basename(path) == sliceFrom(path, lastIndexOf(path, "/") + 1)

\* One pattern of matchPath's loop matches the path.
PatternMatches(pattern, path) ==
    \/ RegexTest(pattern.glob, expandTilde(path))
    \/ RegexTest(pattern.glob, path)
    \/ RegexTest(pattern.glob, Basename(path))
    \/ startsWith(path, "~/")
           /\ RegexTest(pattern.glob, HomeDir \o sliceFrom(path, 2))

\* matchPath(path, patterns): the index of the first pattern that matches,
\* 0 for null.
matchPath(path, patterns) ==
    LET hits == {k \in 1..Len(patterns) : PatternMatches(patterns[k], path)}
    IN  IF hits = {} THEN 0 ELSE CHOOSE k \in hits : \A h \in hits : k <= h

SystemAuthLabels == {"System password hashes", "Sudo configuration"}

CredentialLabels ==
    {"SSH keys and configuration", "AWS credentials", "GCloud credentials",
     "RSA private key", "Private key file", "PEM certificate/key"}

\* The paths of one command, in order: arguments of reading and writing
\* verbs, redirect targets, and redirect targets of echo/printf once more.
AllPaths(cmd) ==
    LET isWrite == cmd.verb \in WRITE_VERBS
        isRead == cmd.verb \in READ_VERBS
        fromArgs ==
            IF isWrite \/ isRead
            THEN [i \in 1..Len(NonOptions(cmd.args)) |->
                     [path |-> NonOptions(cmd.args)[i], isWrite |-> isWrite]]
            ELSE <<>>
        fromRedirects ==
            [i \in 1..Len(cmd.redirects) |->
                [path |-> cmd.redirects[i].target, isWrite |-> TRUE]]
    IN  fromArgs \o fromRedirects
        \o (IF cmd.verb \in {"echo", "printf"} /\ Len(cmd.redirects) > 0
            THEN fromRedirects ELSE <<>>)

\* The finding of one path, or none.
PathFindings(p) ==
    LET k == matchPath(p.path, DEFAULT_PATTERNS)
        label == DEFAULT_PATTERNS[k].label
        isSystemAuth == label \in SystemAuthLabels
        isCredential == label \in CredentialLabels
        severity ==
            IF p.isWrite /\ (isCredential \/ isSystemAuth) THEN "critical"
            ELSE IF p.isWrite /\ label = "Claude agent configuration"
            THEN "high"
            ELSE IF ~p.isWrite /\ isSystemAuth THEN "high"
            ELSE "medium"
    IN  IF k = 0 THEN <<>>
        ELSE <<Finding("sensitive-path", severity,
                 (IF p.isWrite THEN "Writing to" ELSE "Reading from")
                 \o " " \o Code(p.path) \o Dash \o label)>>

\* sensitivePathAnalyzer.analyze(parsed, cwd): the findings.
sensitivePathAnalyze(cmds) ==
    Flatten([i \in 1..Len(cmds) |->
                Flatten([j \in 1..Len(AllPaths(cmds[i])) |->
                            PathFindings(AllPaths(cmds[i])[j])], 1)], 1)

(***************************************************************************)
(* analyzers/network.ts                                                    *)
(***************************************************************************)
NETWORK_VERBS ==
    {"curl", "wget", "nc", "netcat", "ncat", "ssh", "scp", "rsync", "ftp",
     "sftp"}

DNS_VERBS == {"nslookup", "dig", "host", "drill"}

SAFE_HOSTS ==
    {"registry.npmjs.org", "pypi.org", "crates.io", "github.com",
     "raw.githubusercontent.com", "api.github.com", "localhost", "127.0.0.1",
     "::1"}

\* SENSITIVE_DATA_SOURCES.some(r => r.test(str))
SensitiveData(str) ==
    \/ \E sub \in {"/etc/passwd", "/etc/shadow", ".ssh/", ".aws/", ".env",
                   "id_rsa", "credentials"} : includes(str, sub)
    \/ endsWith(str, ".pem")
    \/ endsWith(str, ".key")
    \/ includes(toLowerCase(str), "secret")
    \/ includes(toLowerCase(str), "token")

\* The first index from i on that holds one of the characters of set
\* (Len + 1 if none).
RECURSIVE FirstOf(_, _, _)
FirstOf(s, i, set) ==
    IF i > Len(s) \/ OneOf(CharAt(s, i), set) THEN i
    ELSE FirstOf(s, i + 1, set)

\* extractHost(url): new URL(url).hostname of a url that starts with
\* http://, https:// or ftp://; Null when the URL has no host.
extractHost(url) ==
    LET rest == sliceFrom(url, indexOf(url, "://") + 3)
        authority == SubSeq(rest, 1, FirstOf(rest, 1, "/?#\\") - 1)
        hostport == sliceFrom(authority, lastIndexOf(authority, "@") + 1)
        host ==
            IF startsWith(hostport, "[")
            THEN SubSeq(hostport, 1, indexOf(hostport, "]"))
            ELSE SubSeq(hostport, 1, FirstOf(hostport, 1, ":") - 1)
    IN  IF host = "" THEN Null ELSE toLowerCase(host)

\* args[i].startsWith(flag + "=") for some flag: the value after it.
FlagValueIn(arg, flags) ==
    LET hits == {k \in 1..Len(flags) : startsWith(arg, flags[k] \o "=")}
    IN  IF hits = {} THEN Null
        ELSE sliceFrom(arg,
                 Len(flags[CHOOSE k \in hits : \A h \in hits : k <= h]) + 2)

RECURSIVE FindArgLoop(_, _, _)
FindArgLoop(args, flags, i) ==
    IF i > Len(args) THEN Null
    ELSE IF args[i] \in Range(flags) /\ i + 1 <= Len(args) THEN args[i + 1]
    ELSE IF FlagValueIn(args[i], flags) # Null
    THEN FlagValueIn(args[i], flags)
    ELSE FindArgLoop(args, flags, i + 1)

\* findArgValue(args, flags)
findArgValue(args, flags) == FindArgLoop(args, flags, 1)

CredentialWords ==
    {"authorization", "bearer", "token", "cookie", "x-api-key",
     "x-auth-token"}

\* The findings of the loop body for parsed[i], and whether it ended with
\* the continue of the sensitive pipe.
NetworkStep(cmds, i, safeHosts) ==
    LET cmd == cmds[i]
        hasSubshell ==
            includes(Flat(cmd.rawSegment), "$(")
                \/ includes(Flat(cmd.rawSegment), Backtick)
        prev == cmds[i - 1]
        pipesSensitive ==
            /\ cmd.operator = Null
            /\ i > 1
            /\ prev.operator = "|"
            /\ SensitiveData(Flat(prev.rawSegment))
        uploadsData ==
            \E k \in 1..Len(cmd.args) :
                cmd.args[k] \in {"-d", "--data", "--data-binary", "-F",
                                 "--form", "-T", "--upload-file"}
        urls ==
            SelectSeq(cmd.args,
                LAMBDA a : \/ startsWith(a, "http://")
                           \/ startsWith(a, "https://")
                           \/ startsWith(a, "ftp://"))
        hasUrl == Len(urls) > 0
        host == IF hasUrl THEN extractHost(urls[1]) ELSE Null
        isSafeHost == host # Null /\ host \in safeHosts
        isHttp == hasUrl /\ startsWith(urls[1], "http://")
        hostText == IF host # Null THEN host ELSE "unknown host"
        headerValue == findArgValue(cmd.args, <<"-H", "--header">>)
        headerFindings ==
            IF /\ cmd.verb \in {"curl", "wget"}
               /\ headerValue # Null
               /\ headerValue # ""
               /\ ~isSafeHost
               /\ \E w \in CredentialWords :
                      HasWord(toLowerCase(headerValue), w)
            THEN <<Finding("network", "high",
                     Code(cmd.verb) \o " sending credentials in header to "
                     \o Code(hostText))>>
            ELSE <<>>
        dataArg ==
            findArgValue(cmd.args,
                <<"-d", "--data", "--data-binary", "-T", "--upload-file">>)
        dataSensitive ==
            dataArg # Null /\ dataArg # "" /\ SensitiveData(dataArg)
    IN  IF cmd.verb \in DNS_VERBS
        THEN IF hasSubshell
             THEN <<Finding("network", "critical",
                      Code(cmd.verb) \o " with embedded subshell" \o Dash
                      \o "possible DNS exfiltration")>>
             ELSE <<Finding("network", "low",
                      Code(cmd.verb) \o Dash \o "DNS lookup tool")>>
        ELSE IF cmd.verb \notin NETWORK_VERBS THEN <<>>
        ELSE IF pipesSensitive
        THEN <<Finding("network", "critical",
                 "Piping sensitive data to " \o Code(cmd.verb) \o Dash
                 \o "possible data exfiltration: "
                 \o Code(SubSeq(Flat(prev.rawSegment), 1,
                            IF Len(Flat(prev.rawSegment)) < 40
                            THEN Len(Flat(prev.rawSegment)) ELSE 40)
                         \o "... | " \o cmd.verb))>>
        ELSE headerFindings
             \o (IF uploadsData /\ ~isSafeHost
                 THEN IF dataSensitive
                      THEN <<Finding("network", "critical",
                               Code(cmd.verb) \o " uploading sensitive data to "
                               \o Code(hostText))>>
                      ELSE <<Finding("network", "high",
                               Code(cmd.verb) \o " sending data to "
                               \o Code(hostText))>>
                 ELSE IF isHttp /\ ~isSafeHost
                 THEN <<Finding("network", "medium",
                          Code(cmd.verb) \o " using unencrypted HTTP to "
                          \o Code(host))>>
                 ELSE IF cmd.verb \in {"nc", "netcat", "ncat"}
                 THEN <<Finding("network", "high",
                          Code(cmd.verb) \o Dash
                          \o "raw network connection (commonly used for data exfiltration)")>>
                 ELSE <<>>)

\* The findings after the check for piped chains ending in a network
\* command, given the findings of the loop.
NetworkChain(cmds, findings) ==
    LET last == cmds[Len(cmds)]
    IN  IF /\ Len(cmds) >= 2
           /\ last.verb \in NETWORK_VERBS
           /\ \E k \in 1..(Len(cmds) - 1) : cmds[k].operator = "|"
           /\ \E k \in 1..(Len(cmds) - 1) :
                  SensitiveData(Flat(cmds[k].rawSegment))
           /\ ~\E k \in 1..Len(findings) : findings[k].severity = "critical"
        THEN Append(findings,
                 Finding("network", "critical",
                     "Command chain pipes sensitive data to "
                     \o Code(last.verb) \o Dash \o "possible exfiltration"))
        ELSE findings

\* A variant of the analyzer that looks at every segment by itself,
\* without its neighbours and without the check of the chain.
networkAnalyze_SegmentsAlone(cmds, extraSafeHosts) ==
    Flatten([i \in 1..Len(cmds) |->
                NetworkStep(<<cmds[i]>>, 1,
                    SAFE_HOSTS \cup Range(extraSafeHosts))], 1)

\* createNetworkAnalyzer(extraSafeHosts).analyze(parsed): the findings.
networkAnalyze(cmds, extraSafeHosts) ==
    NetworkChain(cmds,
        Flatten([i \in 1..Len(cmds) |->
                    NetworkStep(cmds, i,
                        SAFE_HOSTS \cup Range(extraSafeHosts))], 1))

(***************************************************************************)
(* analyzers/code-injection.ts                                             *)
(***************************************************************************)
EVAL_VERBS == {"eval", "exec", "source"}

INTERPRETER_FLAGS ==
    [bash |-> {"-c"}, sh |-> {"-c"}, zsh |-> {"-c"}, dash |-> {"-c"},
     python |-> {"-c"}, python3 |-> {"-c"}, node |-> {"-e", "--eval"},
     ruby |-> {"-e"}, perl |-> {"-e"}]

INTERPRETERS == DOMAIN INTERPRETER_FLAGS

DownloadVerbs == {"curl", "wget"}

DangerousOps ==
    {"rm", "del", "rmdir", "os.system", "subprocess", "child_process",
     "execsync", "spawnsync"}

\* The first index i >= from with flags.has(args[i]) && i + 1 < args.length
\* (counted from 1), 0 if none.
InlineFlagIndex(args, flags, from) ==
    LET hits == {i \in from..(Len(args) - 1) : args[i] \in flags}
    IN  IF hits = {} THEN 0 ELSE CHOOSE i \in hits : \A h \in hits : i <= h

\* eval / exec / source
EvalFindings(cmd) ==
    LET verb == toLowerCase(cmd.verb)
        argStr == join(cmd.args, " ")
        hasSubshell == includes(argStr, "$(") \/ includes(argStr, Backtick)
        hasCurl ==
            HasWord(toLowerCase(argStr), "curl")
                \/ HasWord(toLowerCase(argStr), "wget")
    IN  IF verb \in EVAL_VERBS \/ (verb = "." /\ Len(cmd.args) > 0)
        THEN IF hasCurl
             THEN <<Finding("code-injection", "critical",
                      Code(verb) \o " with remote content" \o Dash
                      \o "arbitrary code execution from network")>>
             ELSE IF hasSubshell
             THEN <<Finding("code-injection", "high",
                      Code(verb) \o " with subshell expansion" \o Dash
                      \o "dynamic code execution")>>
             ELSE <<Finding("code-injection", "medium",
                      Code(verb) \o Dash \o "dynamic code execution")>>
        ELSE <<>>

\* interpreter -c / -e inline code
InlineFindings(cmd) ==
    LET verb == toLowerCase(cmd.verb)
        i == InlineFlagIndex(cmd.args, INTERPRETER_FLAGS[verb], 1)
        code == toLowerCase(join(SubSeq(cmd.args, i + 1, Len(cmd.args)), " "))
        hasDangerousOps == \E w \in DangerousOps : HasWord(code, w)
    IN  IF verb \in INTERPRETERS /\ i # 0
        THEN IF hasDangerousOps
             THEN <<Finding("code-injection", "high",
                      Code(verb \o " " \o cmd.args[i]) \o Dash
                      \o "inline code with potentially dangerous operations")>>
             ELSE <<Finding("code-injection", "low",
                      Code(verb \o " " \o cmd.args[i]) \o Dash
                      \o "inline code execution")>>
        ELSE <<>>

\* sudo + interpreter inline
SudoInlineFindings(cmd) ==
    LET verb == toLowerCase(cmd.verb)
        innerVerb == toLowerCase(cmd.args[1])
        i == InlineFlagIndex(cmd.args, INTERPRETER_FLAGS[innerVerb], 2)
    IN  IF /\ verb = "sudo"
           /\ Len(cmd.args) > 0
           /\ innerVerb \in INTERPRETERS
           /\ i # 0
        THEN <<Finding("code-injection", "high",
                 Code("sudo " \o innerVerb \o " " \o cmd.args[i]) \o Dash
                 \o "elevated inline code execution")>>
        ELSE <<>>

\* curl/wget piped to interpreter
PipeFindings(cmds, cmd) ==
    LET verb == toLowerCase(cmd.verb)
        nextCmd == cmds[cmd.position + 2]
        nextVerb == toLowerCase(nextCmd.verb)
        actualInterp ==
            IF nextVerb = "sudo" /\ Len(nextCmd.args) > 0
            THEN toLowerCase(nextCmd.args[1])
            ELSE nextVerb
    IN  IF /\ verb \in DownloadVerbs
           /\ cmd.operator = "|"
           /\ cmd.position + 2 <= Len(cmds)
           /\ actualInterp \in INTERPRETERS
        THEN <<Finding("code-injection", "critical",
                 Code(verb) \o " piped to " \o Code(actualInterp) \o Dash
                 \o "remote code execution")>>
        ELSE <<>>

\* /(?:-v|--volume)\s+\/?:\// matches s at index i; lower case when the
\* pattern has the i flag.
RootMountAt(s, i) ==
    \E flag \in {"-v", "--volume"} :
        /\ MatchAt(s, i, flag)
        /\ AfterSpace(s, i + Len(flag)) > i + Len(flag)
        /\ LET j == AfterSpace(s, i + Len(flag))
           IN  MatchAt(s, j, ":/") \/ MatchAt(s, j, "/:/")

\* /(?:-v|--volume)\s+\/[^:]*:\/[^:]*:?/ matches s at index i.
VolumeAt(s, i) ==
    \E flag \in {"-v", "--volume"} :
        /\ MatchAt(s, i, flag)
        /\ AfterSpace(s, i + Len(flag)) > i + Len(flag)
        /\ LET j == AfterSpace(s, i + Len(flag))
           IN  /\ MatchAt(s, j, "/")
               /\ MatchAt(s, FirstOf(s, j + 1, ":"), ":/")

\* docker container escape patterns
DockerFindings(cmd) ==
    LET verb == toLowerCase(cmd.verb)
        argStr == join(cmd.args, " ")
        volumePattern ==
            \E i \in 1..Len(argStr) : RootMountAt(argStr, i) \/ VolumeAt(argStr, i)
        rootMount ==
            \E i \in 1..Len(argStr) : RootMountAt(toLowerCase(argStr), i)
        spaces == SelectSeq(cmd.args,
                      LAMBDA a : startsWith(a, "--pid=") \/ startsWith(a, "--net="))
    IN  IF /\ verb = "docker"
           /\ Len(cmd.args) > 0
           /\ cmd.args[1] \in {"run", "exec", "create"}
        THEN (IF "--privileged" \in Range(cmd.args)
              THEN <<Finding("code-injection", "high",
                       Code("docker --privileged") \o Dash
                       \o "container has full host access")>>
              ELSE <<>>)
             \o (IF volumePattern /\ rootMount
                 THEN <<Finding("code-injection", "critical",
                          Code("docker -v /:/...") \o Dash
                          \o "host root filesystem mounted in container")>>
                 ELSE <<>>)
             \o (IF "--pid=host" \in Range(cmd.args)
                       \/ "--net=host" \in Range(cmd.args)
                 THEN <<Finding("code-injection", "high",
                          Code("docker " \o spaces[1]) \o Dash
                          \o "container shares host namespace")>>
                 ELSE <<>>)
        ELSE <<>>

\* codeInjectionAnalyzer.analyze(parsed): the findings.
codeInjectionAnalyze(cmds) ==
    Flatten([i \in 1..Len(cmds) |->
                EvalFindings(cmds[i]) \o InlineFindings(cmds[i])
                    \o SudoInlineFindings(cmds[i])
                    \o PipeFindings(cmds, cmds[i])
                    \o DockerFindings(cmds[i])], 1)

(***************************************************************************)
(* analyzers/package-vuln.ts                                               *)
(***************************************************************************)
\* A PackageInfo.
PackageInfo(name, version, ecosystem) ==
    [name |-> name, version |-> version, ecosystem |-> ecosystem]

\* args.findIndex(a => verbs has a), counted from 1; 0 if none.
FindIndex(args, words) ==
    LET hits == {i \in 1..Len(args) : args[i] \in words}
    IN  IF hits = {} THEN 0 ELSE CHOOSE i \in hits : \A h \in hits : i <= h

\* pkg@version or pkg, as npm and cargo read it (scoped names keep their
\* leading @).
AtPackage(a, ecosystem) ==
    IF lastIndexOf(a, "@") > 1
    THEN PackageInfo(SubSeq(a, 1, lastIndexOf(a, "@") - 1),
                     sliceFrom(a, lastIndexOf(a, "@") + 1), ecosystem)
    ELSE PackageInfo(a, Null, ecosystem)

PipOperators == {"==", ">=", "<=", "~=", "!="}

\* /^([^=<>!]+?)(?:==|>=|<=|~=|!=)(.+)$/ : the length of the shortest name
\* the pattern matches, 0 if it does not match.
PipNameLength(a) ==
    LET fits == {k \in 1..(Len(a) - 3) :
                    /\ \A j \in 1..k : ~OneOf(CharAt(a, j), "=<>!")
                    /\ SubSeq(a, k + 1, k + 2) \in PipOperators}
    IN  IF fits = {} THEN 0 ELSE CHOOSE k \in fits : \A h \in fits : k <= h

PipPackage(a) ==
    IF PipNameLength(a) # 0
    THEN PackageInfo(SubSeq(a, 1, PipNameLength(a)),
                     sliceFrom(a, PipNameLength(a) + 3), "PyPI")
    ELSE PackageInfo(a, Null, "PyPI")

\* The arguments after the install word that are not options.
InstallArgs(args, words) ==
    IF FindIndex(args, words) = 0 THEN <<>>
    ELSE NonOptions(SubSeq(args, FindIndex(args, words) + 1, Len(args)))

\* ECOSYSTEM_MAP, in the order of its entries: verbs and parseArgs.
EcosystemNames == <<"npm", "pip", "cargo">>

EcosystemVerbs ==
    [npm |-> {"npm"}, pip |-> {"pip", "pip3"}, cargo |-> {"cargo"}]

parseArgs(entry, args) ==
    IF entry = "npm"
    THEN LET as == InstallArgs(args, {"install", "i", "add"})
         IN  [i \in 1..Len(as) |-> AtPackage(as[i], "npm")]
    ELSE IF entry = "pip"
    THEN LET as == InstallArgs(args, {"install"})
         IN  [i \in 1..Len(as) |-> PipPackage(as[i])]
    ELSE LET as == InstallArgs(args, {"add", "install"})
         IN  [i \in 1..Len(as) |-> AtPackage(as[i], "crates.io")]

\* The packages of the entries whose verbs include verb, in entry order.
PackagesFor(verb, args) ==
    Flatten([k \in 1..Len(EcosystemNames) |->
                IF verb \in EcosystemVerbs[EcosystemNames[k]]
                THEN parseArgs(EcosystemNames[k], args)
                ELSE <<>>], 1)

\* Extract packages from all command segments.
ExtractPackages(cmds) ==
    Flatten([i \in 1..Len(cmds) |->
                PackagesFor(cmds[i].verb, cmds[i].args)
                \o (IF cmds[i].verb = "sudo" /\ Len(cmds[i].args) > 0
                    THEN PackagesFor(cmds[i].args[1], Tail(cmds[i].args))
                    ELSE <<>>)], 1)

OSV_CACHE_MAX == 500

\* !pkg.version
NoVersion(pkg) == pkg.version = Null \/ pkg.version = ""

\* The cache key of a package.
CacheKey(pkg) == pkg.ecosystem \o ":" \o pkg.name \o "@" \o pkg.version

\* osvCache is a Map: a sequence of [key, vulns] in insertion order.
CacheHas(cache, key) == \E i \in 1..Len(cache) : cache[i].key = key

\* osvCache.get(key), for a key the cache has.
CacheGet(cache, key) ==
    cache[CHOOSE i \in 1..Len(cache) : cache[i].key = key].vulns

\* osvCache.set(key, vulns): a key already there keeps its place.
CacheSet(cache, key, vulns) ==
    IF CacheHas(cache, key)
    THEN [i \in 1..Len(cache) |->
             IF cache[i].key = key THEN [key |-> key, vulns |-> vulns]
             ELSE cache[i]]
    ELSE Append(cache, [key |-> key, vulns |-> vulns])

\* A variant of the store that never evicts.
CacheStore_NoEviction(cache, key, vulns) == CacheSet(cache, key, vulns)

\* A variant of the store that evicts the entry inserted last.
CacheStore_EvictNewest(cache, key, vulns) ==
    CacheSet(IF Len(cache) >= OSV_CACHE_MAX
             THEN SubSeq(cache, 1, Len(cache) - 1) ELSE cache,
             key, vulns)

\* Evict oldest entry if cache is full, then set.
CacheStore(cache, key, vulns) ==
    CacheSet(IF Len(cache) >= OSV_CACHE_MAX THEN Tail(cache) ELSE cache,
             key, vulns)

\* An OsvResult.
OsvResult(vulns) == [vulns |-> vulns, error |-> Absent]
OsvError(message) == [vulns |-> <<>>, error |-> message]

\* Numbers are counted in tenths.  getCvssScore's null.
NoScore == -1

\* The end of the digits that start at index i.
RECURSIVE AfterDigits(_, _)
AfterDigits(s, i) ==
    IF i <= Len(s) /\ OneOf(CharAt(s, i), Digits) THEN AfterDigits(s, i + 1)
    ELSE i

RECURSIVE DigitsValue(_)
\* The number a string of digits stands for.
DigitsValue(s) ==
    IF s = "" THEN 0
    ELSE 10 * DigitsValue(SubSeq(s, 1, Len(s) - 1))
         + (indexOf(Digits, CharAt(s, Len(s))) - 1)

\* The number parseFloat reads between i and e, with the sign at b.
FloatValue(str, b, i, e, hasFraction) ==
    IF e = i /\ ~hasFraction THEN [nan |-> TRUE, value |-> 0]
    ELSE [nan |-> FALSE,
          value |->
              (IF CharAt(str, b) = "-" THEN -1 ELSE 1)
              * (10 * DigitsValue(SubSeq(str, i, e - 1))
                 + (IF hasFraction
                    THEN indexOf(Digits, CharAt(str, e + 1)) - 1 ELSE 0))]

\* The number whose digits start at i and end before e.
FloatDigits(str, b, i, e) ==
    FloatValue(str, b, i, e,
        MatchAt(str, e, ".") /\ AfterDigits(str, e + 1) > e + 1)

\* The number that starts at b with its sign.
FloatFrom(str, b, i) == FloatDigits(str, b, i, AfterDigits(str, i))

\* The number that starts at b.
FloatAt(str, b) ==
    FloatFrom(str, b, IF OneOf(CharAt(str, b), "+-") THEN b + 1 ELSE b)

\* parseFloat(s), in tenths: leading white space, a sign, digits and a
\* fraction, of which the first digit counts.  nan when no number starts s.
parseFloat(str) == FloatAt(str, AfterSpace(str, 1))

RECURSIVE split(_, _)
\* String.prototype.split(sep), sep one character.
SplitAt(s, sep, at) ==
    IF at = 0 THEN <<s>>
    ELSE <<SubSeq(s, 1, at - 1)>> \o split(sliceFrom(s, at + 1), sep)

split(s, sep) == SplitAt(s, sep, indexOf(s, sep))

\* if (key && val) metrics[key] = val: metrics is the list of the entries
\* set, in the order of the parts.
SetMetric(metrics, kv) ==
    IF Len(kv) >= 2 /\ kv[1] # "" /\ kv[2] # ""
    THEN Append(metrics, [key |-> kv[1], val |-> kv[2]])
    ELSE metrics

RECURSIVE MetricsLoop(_, _, _)
\* The loop over the parts of the vector, from index k on.
MetricsLoop(parts, k, metrics) ==
    IF k > Len(parts) THEN metrics
    ELSE MetricsLoop(parts, k + 1, SetMetric(metrics, split(parts[k], ":")))

\* The last of a set of indices.
LastIndex(indices) == CHOOSE k \in indices : \A h \in indices : k >= h

\* The value of the last entry among the indices, NoValue if there is none.
LastValue(metrics, indices) ==
    IF indices = {} THEN NoValue ELSE metrics[LastIndex(indices)].val

\* metrics[key], NoValue for undefined.
Metric(metrics, key) ==
    LastValue(metrics, {k \in 1..Len(metrics) : metrics[k].key = key})

\* a ?? b
Coalesce(a, b) == IF a # NoValue THEN a ELSE b

\* impactValues[v] ?? 0
ImpactValue(v) == IF v = "L" THEN 1 ELSE IF v = "H" THEN 2 ELSE 0

\* impactValues[metrics[first] ?? metrics[second] ?? "N"] ?? 0
Impact(metrics, first, second) ==
    ImpactValue(Coalesce(Metric(metrics, first),
                         Coalesce(Metric(metrics, second), "N")))

\* Math.max(ci, ii, ai)
Max3(ci, ii, ai) ==
    IF ci >= ii /\ ci >= ai THEN ci ELSE IF ii >= ai THEN ii ELSE ai

\* Math.min(score, 10), in tenths.
Min10(score) == IF score < 100 THEN score ELSE 100

\* The heuristic score of the metrics, given their highest impact.
ScoreOfImpact(metrics, maxImpact) ==
    IF maxImpact = 0 THEN 0
    ELSE Min10((IF maxImpact = 2 THEN 70 ELSE 40)
               + (IF Metric(metrics, "AC") = "L" THEN 10 ELSE 0)
               + (IF Metric(metrics, "PR") = "N" THEN 10 ELSE 0)
               + (IF Metric(metrics, "S") = "C" THEN 5 ELSE 0))

\* The score of the metrics of a vector.
ScoreOfMetrics(metrics) ==
    ScoreOfImpact(metrics,
        Max3(Impact(metrics, "VC", "C"), Impact(metrics, "VI", "I"),
             Impact(metrics, "VA", "A")))

\* approximateScoreFromVector(vector), in tenths.
approximateScoreFromVector(vector) ==
    ScoreOfMetrics(MetricsLoop(split(vector, "/"), 1, <<>>))

\* The score of a CVSS entry, given what parseFloat makes of its text.
ScoreOfText(score, numeric) ==
    IF ~numeric.nan /\ numeric.value >= 0 /\ numeric.value <= 100
    THEN numeric.value
    ELSE IF startsWith(score, "CVSS:")
    THEN approximateScoreFromVector(score)
    ELSE NoScore

\* The score of the first of the CVSS entries, NoScore if there is none.
ScoreOfCvss(cvss) ==
    IF Len(cvss) = 0 THEN NoScore
    ELSE ScoreOfText(cvss[1].score, parseFloat(cvss[1].score))

\* getCvssScore(vuln), in tenths; NoScore for null.
getCvssScore(vuln) ==
    IF "severity" \notin DOMAIN vuln THEN NoScore
    ELSE ScoreOfCvss(SelectSeq(vuln.severity,
                         LAMBDA s : s.type \in {"CVSS_V3", "CVSS_V2"}))

\* cvssToSeverity(score)
cvssToSeverity(score) ==
    IF score = NoScore THEN "medium"
    ELSE IF score >= 90 THEN "critical"
    ELSE IF score >= 70 THEN "high"
    ELSE IF score >= 40 THEN "medium"
    ELSE "low"

\* score.toFixed(1)
toFixed(score) == ToString(score \div 10) \o "." \o ToString(score % 10)

\* highestScore after a vulnerability with this score.
Higher(score, highest) ==
    IF score # NoScore /\ (highest = NoScore \/ score > highest)
    THEN score ELSE highest

RECURSIVE HighestScore(_, _, _)
\* The highest score of the vulnerabilities from index i on, given the
\* highest so far.
HighestScore(vulns, i, highest) ==
    IF i > Len(vulns) THEN highest
    ELSE HighestScore(vulns, i + 1, Higher(getCvssScore(vulns[i]), highest))

\* The finding of a lookup that failed.
UnknownFinding(pkg, error) ==
    Finding("package-vulnerability", "medium",
        Code(pkg.name \o "@" \o pkg.version) \o Dash \o error
        \o "; vulnerability status unknown")

\* cveText
CveText(cveIds) ==
    IF Len(cveIds) > 0
    THEN " including "
         \o join(SubSeq(cveIds, 1, IF Len(cveIds) < 3 THEN Len(cveIds) ELSE 3),
                 ", ")
         \o (IF Len(cveIds) > 3
             THEN " and " \o ToString(Len(cveIds) - 3) \o " more" ELSE "")
    ELSE ""

\* scoreText
ScoreText(highestScore) ==
    IF highestScore # NoScore
    THEN " (CVSS " \o toFixed(highestScore) \o ")" ELSE ""

\* The finding pushed after the loop over the vulnerabilities.
VulnerabilityFinding(pkg, vulns, highestScore, cveIds) ==
    Finding("package-vulnerability", cvssToSeverity(highestScore),
        Code(pkg.name \o "@" \o pkg.version) \o " has "
        \o ToString(Len(vulns)) \o " known vulnerabilit"
        \o (IF Len(vulns) = 1 THEN "y" ELSE "ies")
        \o CveText(cveIds) \o ScoreText(highestScore))

\* The finding of a package with vulnerabilities, all of which have an id.
VulnerableFinding(pkg, vulns) ==
    VulnerabilityFinding(pkg, vulns, HighestScore(vulns, 1, NoScore),
        SelectSeq([i \in 1..Len(vulns) |-> vulns[i].id],
            LAMBDA id : startsWith(id, "CVE-") \/ startsWith(id, "GHSA-")))

\* vuln.id.startsWith throws a TypeError for a vulnerability without id.
ThrowsOn(result) ==
    /\ result.error = Absent
    /\ \E i \in 1..Len(result.vulns) : "id" \notin DOMAIN result.vulns[i]

\* The findings the loop over the results pushes for one package.
FindingsOf(pkg, result) ==
    IF result.error # Absent THEN <<UnknownFinding(pkg, result.error)>>
    ELSE IF Len(result.vulns) = 0 THEN <<>>
    ELSE <<VulnerableFinding(pkg, result.vulns)>>

\* What analyze of package-vuln settles with, given the packages and the
\* results of their queries in the order of Promise.all: it rejects when the
\* loop throws, else it resolves with the findings and partial.
packageVulnSettle(packages, results) ==
    IF Len(packages) = 0
    THEN [rejected |-> FALSE, findings |-> <<>>, partial |-> Absent]
    ELSE IF \E i \in 1..Len(results) : ThrowsOn(results[i])
    THEN [rejected |-> TRUE, findings |-> <<>>, partial |-> Absent]
    ELSE [rejected |-> FALSE,
          findings |-> Flatten([i \in 1..Len(packages) |->
                                   FindingsOf(packages[i], results[i])], 1),
          partial |-> IF \E i \in 1..Len(results) : results[i].error # Absent
                      THEN "true" ELSE "false"]

(***************************************************************************)
(* index.ts: the assess_command handler.                                   *)
(*                                                                         *)
(* A step of the model is one turn of the event loop: the handler, or the  *)
(* callback of one I/O event, together with every continuation that runs   *)
(* before the next I/O event.  The five analyzers without I/O settle in    *)
(* the turn of the handler, in the order of registration; package-vuln     *)
(* settles in the turn in which the last of its queries resolves, and the  *)
(* handler responds in the turn in which the last analyzer settles.        *)
(***************************************************************************)
\* The names of the analyzers, in the order of registration.
analyzers ==
    <<"destructive", "permissions", "sensitive-path", "network",
      "package-vuln", "code-injection">>

\* The place of package-vuln in the registration.
PackageVulnIndex == CHOOSE i \in 1..Len(analyzers) : analyzers[i] = "package-vuln"

\* command.startsWith(prefix), on texts.
textStartsWith(text, prefix) ==
    Len(text) >= Len(prefix) /\ SubSeq(text, 1, Len(prefix)) = prefix

\* A variant of matchesAllowlist that asks for the whole command.
matchesAllowlist_WholeCommand(cmd, allowlist) ==
    \E i \in 1..Len(allowlist) : cmd = allowlist[i]

\* matchesAllowlist(command, allowlist)
matchesAllowlist(cmd, allowlist) ==
    \E i \in 1..Len(allowlist) : textStartsWith(cmd, allowlist[i])

\* What the handler returns: the assessment and isError.
Response(assessment, isError) ==
    [risk_level |-> assessment.risk_level, action |-> assessment.action,
     summary |-> assessment.summary, details |-> assessment.details,
     partial |-> assessment.partial, isError |-> isError]

\* The assessment of an allowlisted command.
AllowlistAssessment ==
    [risk_level |-> "none", action |-> "run",
     summary |-> "Command is in the allowlist.", details |-> <<>>,
     partial |-> Absent]

\* The assessment of the catch block.
ErrorAssessment(message) ==
    [risk_level |-> "none", action |-> "run",
     summary |-> "Analysis error: " \o message, details |-> <<>>,
     partial |-> Absent]

\* The message of the TypeError of vuln.id.startsWith.
TypeErrorMessage ==
    "Cannot read properties of undefined (reading 'startsWith')"

\* A variant of Promise.all that keeps the values in the order of
\* completion.
PromiseAll_CompletionOrder(entries, n) ==
    [k \in 1..n |-> entries[k].value]

\* Promise.all: the values of n promises in the order of the promises,
\* whatever the order in which they completed (entries).
PromiseAll(entries, n) ==
    [i \in 1..n |->
        entries[CHOOSE k \in 1..Len(entries) : entries[k].index = i].value]

\* A promise that completed: its place in the array, and its value.
Entry(index, value) == [index |-> index, value |-> value]

\* An analyzer settled with a result.
Resolved(findings, partial) ==
    [rejected |-> FALSE, findings |-> findings, partial |-> partial]

\* finding.analyzer = a.name, for each finding of a result.
Tagged(result, name) ==
    [result EXCEPT
        !.findings =
            [i \in 1..Len(result.findings) |->
                [category |-> result.findings[i].category,
                 severity |-> result.findings[i].severity,
                 description |-> result.findings[i].description,
                 analyzer |-> name]]]

\* What the analyzer at place i, one without I/O, settles with.
AnalyzeAt(i, cmds, cfg) ==
    Tagged(
        Resolved(
            IF analyzers[i] = "destructive" THEN destructiveAnalyze(cmds)
            ELSE IF analyzers[i] = "permissions" THEN permissionsAnalyze(cmds)
            ELSE IF analyzers[i] = "sensitive-path"
            THEN sensitivePathAnalyze(cmds)
            ELSE IF analyzers[i] = "network"
            THEN networkAnalyze(cmds, cfg.safeHosts)
            ELSE codeInjectionAnalyze(cmds),
            Absent),
        analyzers[i])

\* A request nobody sent yet.
NoRequest ==
    [status |-> "idle", command |-> <<>>, parsed |-> <<>>,
     packages |-> <<>>, queries |-> <<>>, resolved |-> <<>>,
     settled |-> <<>>, response |-> Response(NoAssessment, FALSE),
     calls |-> [parser |-> 0, analyzers |-> 0, oracle |-> 0]]

\* A variant of the start of a query that takes an empty stored list for a
\* miss.
StartQuery_EmptyIsMiss(pkg, cache) ==
    IF NoVersion(pkg)
    THEN [state |-> "done", timer |-> FALSE, result |-> OsvResult(<<>>)]
    ELSE IF CacheHas(cache, CacheKey(pkg)) /\ CacheGet(cache, CacheKey(pkg)) # <<>>
    THEN [state |-> "done", timer |-> FALSE,
          result |-> OsvResult(CacheGet(cache, CacheKey(pkg)))]
    ELSE [state |-> "fetching", timer |-> TRUE, result |-> OsvResult(<<>>)]

\* The query of a package as queryOsv leaves it at its first await, or at
\* its return when it has no I/O to wait for.
StartQuery(pkg, cache) ==
    IF NoVersion(pkg)
    THEN [state |-> "done", timer |-> FALSE, result |-> OsvResult(<<>>)]
    ELSE IF CacheHas(cache, CacheKey(pkg))
    THEN [state |-> "done", timer |-> FALSE,
          result |-> OsvResult(CacheGet(cache, CacheKey(pkg)))]
    ELSE [state |-> "fetching", timer |-> TRUE, result |-> OsvResult(<<>>)]

\* The entries of the queries that are done, in the order of the queries.
DoneEntries(queries) ==
    Flatten([i \in 1..Len(queries) |->
                IF queries[i].state = "done"
                THEN <<Entry(i, queries[i].result)>> ELSE <<>>], 1)

\* package-vuln settles: the results of Promise.all, the loop over them,
\* and the tag of its findings.
SettlePackageVuln(req) ==
    LET outcome == packageVulnSettle(req.packages,
                       PromiseAll(req.resolved, Len(req.packages)))
    IN  [req EXCEPT
            !.settled =
                Append(@, Entry(PackageVulnIndex,
                                Tagged(outcome, "package-vuln")))]

\* The handler after Promise.all over the analyzers: the catch block when
\* an analyzer rejected, else scoreRisk.
Respond(req, cfg) ==
    LET results == PromiseAll(req.settled, Len(analyzers))
    IN  [req EXCEPT
            !.status = "responded",
            !.response =
                IF \E k \in 1..Len(req.settled) : req.settled[k].value.rejected
                THEN Response(ErrorAssessment(TypeErrorMessage), TRUE)
                ELSE Response(scoreRisk(results, cfg.actionPolicy), FALSE)]

\* The continuations that run once every query of the request is done.
Continue(req, cfg) ==
    IF Len(req.resolved) = Len(req.packages)
    THEN Respond(SettlePackageVuln(req), cfg)
    ELSE req

\* The request as the handler leaves it when it has started the queries of
\* the packages and every analyzer has been called.
Started(cmd, cmds, packages, queries) ==
    [NoRequest EXCEPT
        !.status = "running", !.command = cmd, !.parsed = cmds,
        !.packages = packages, !.queries = queries,
        !.resolved = DoneEntries(queries),
        !.calls = [parser |-> 1, analyzers |-> Len(analyzers),
                   oracle |-> Cardinality({i \in 1..Len(queries) :
                                              queries[i].state = "fetching"})]]

\* The analyzers registered from place first to place last settle, in that
\* order.
SettleFrom(first, last, cmds, cfg) ==
    [k \in 1..(last - first + 1) |->
        Entry(first + k - 1, AnalyzeAt(first + k - 1, cmds, cfg))]

\* The turn of the handler once the analyzers are called: without packages
\* package-vuln settles in its place, with packages it settles after the
\* others, when the queries are done.
Analyzed(started, before, after, cfg) ==
    IF Len(started.packages) = 0
    THEN Respond([SettlePackageVuln([started EXCEPT !.settled = before])
                     EXCEPT !.settled = @ \o after], cfg)
    ELSE Continue([started EXCEPT !.settled = before \o after], cfg)

\* The handler from Promise.all over the analyzers on.
Analyze(cmd, cfg, cache, cmds, packages) ==
    Analyzed(
        Started(cmd, cmds, packages,
            [i \in 1..Len(packages) |-> StartQuery(packages[i], cache)]),
        SettleFrom(1, PackageVulnIndex - 1, cmds, cfg),
        SettleFrom(PackageVulnIndex + 1, Len(analyzers), cmds, cfg),
        cfg)

\* The handler from the result of parseCommand on.
Parsed(cmd, cfg, cache, result) ==
    IF result.threw
    THEN [NoRequest EXCEPT
             !.status = "responded", !.command = cmd,
             !.calls.parser = 1,
             !.response = Response(ErrorAssessment(result.message), TRUE)]
    ELSE Analyze(cmd, cfg, cache, result.results,
                 ExtractPackages(result.results))

\* The handler up to its first wait for I/O.
Handle(cmd, cfg, cache) ==
    IF matchesAllowlist(cmd, cfg.commandAllowlist)
    THEN [NoRequest EXCEPT
             !.status = "responded", !.command = cmd,
             !.response = Response(AllowlistAssessment, FALSE)]
    ELSE Parsed(cmd, cfg, cache, parseCommand(cmd))

\* The line writeLogEntry hands to the write chain.
LogLine(req) ==
    [command |-> req.command, risk_level |-> req.response.risk_level,
     action |-> req.response.action, partial |-> req.response.partial]

\* The write chain after the turn that took the request from before to now.
Logged(chain, before, now) ==
    IF before.status # "responded" /\ now.status = "responded"
    THEN Append(chain, LogLine(now)) ELSE chain

\* A variant with one timer for the request: when the timer fires, every
\* query of the request that is still waiting ends with the timeout.
QueryDone_SharedTimer(req, i, result, cfg) ==
    IF result.error = "OSV lookup failed: request timed out"
    THEN Continue([req EXCEPT
                      !.queries =
                          [j \in 1..Len(req.queries) |->
                              IF req.queries[j].state = "done"
                              THEN req.queries[j]
                              ELSE [state |-> "done", timer |-> FALSE,
                                    result |-> result]],
                      !.resolved =
                          @ \o Flatten([j \in 1..Len(req.queries) |->
                                  IF req.queries[j].state = "done" THEN <<>>
                                  ELSE <<Entry(j, result)>>], 1)], cfg)
    ELSE Continue([req EXCEPT
                      !.queries[i] =
                          [state |-> "done", timer |-> FALSE,
                           result |-> result],
                      !.resolved = Append(@, Entry(i, result))], cfg)

\* One query of a request is done with a result; the continuations follow.
QueryDone(req, i, result, cfg) ==
    Continue([req EXCEPT
                 !.queries[i] =
                     [state |-> "done", timer |-> FALSE, result |-> result],
                 !.resolved = Append(@, Entry(i, result))], cfg)

\* The requests, inputs and configurations of SpecAssess.
Requests == 1..MaxRequests

\* DEFAULT_CONFIG, as far as the handler reads it.
DEFAULT_CONFIG ==
    [actionPolicy |-> DEFAULT_ACTION_POLICY, commandAllowlist |-> <<>>,
     safeHosts |-> <<>>, packageAllowlist |-> <<>>]

\* The configurations loadConfig may return: the defaults, and a file with
\* an allowlist and a policy of its own.
ConfigInputs ==
    { DEFAULT_CONFIG,
      [DEFAULT_CONFIG EXCEPT
          !.commandAllowlist = <<Chars("git "), Chars("sudo npm")>>,
          !.actionPolicy = [none |-> "ask", low |-> "warn", medium |-> "run",
                            high |-> "warn", critical |-> "run"]] }

\* The commands the clients send.
AssessCommands ==
    { Chars("sudo npm i b@1 a@1;eval x"),
      Chars("pip install a"),
      <<LongWord, LongWord>> }

\* The JSON bodies of the oracle's 2xx responses: without vulns, with a
\* vulnerability, with a vulnerability that has no id, and null.
JsonNull == [null |-> TRUE]

ResponseBodies ==
    { [note |-> "no vulns"],
      [vulns |-> <<[id |-> "CVE-1",
                    severity |-> <<[type |-> "CVSS_V3", score |-> "9.8"]>>]>>],
      [vulns |-> <<[summary |-> "no id"]>>],
      JsonNull }

(***************************************************************************)
(* The state each specification leaves alone.                              *)
(***************************************************************************)
\* The scorer has not been called (the state of the other specifications).
ScoreIdle ==
    /\ allFindings = <<>>
    /\ actionPolicy = DEFAULT_ACTION_POLICY
    /\ scored = NoAssessment
    /\ prevLevel = NoValue

\* The parser has not been called.
ParseIdle ==
    /\ command = <<>>
    /\ parsed = NotParsed

\* No request was sent.
\* logFilePath === false
Disabled == "false"

\* The paths initLogger is called with.
LogPaths == {"a/log", "b/log"}

\* logger.ts when the module is loaded: no path, no directory ensured, one
\* chain that has resolved; nothing on disk and no call made.
ModuleLogger ==
    [logFilePath |-> Disabled, dirEnsured |-> FALSE, chains |-> << <<>> >>,
     dirs |-> {},
     files |-> [p \in LogPaths |-> <<>>],
     failed |-> {}, calls |-> 0, inits |-> 0]

\* The result of a query that has not resolved.
NoResult == [vulns |-> <<>>, error |-> "pending"]

\* scanManifest has not been called.
NoScan ==
    [status |-> "idle", toCheck |-> <<>>, i |-> 0, inFlight |-> {},
     results |-> <<>>, queried |-> <<>>, findings |-> <<>>,
     partial |-> FALSE, packages |-> <<>>, allowlist |-> {}]

\* The logger and the scan are left alone.
LogIdle == logger = ModuleLogger /\ scan = NoScan

AssessIdle ==
    /\ config = DEFAULT_CONFIG
    /\ osvCache = <<>>
    /\ requests = [r \in Requests |-> NoRequest]
    /\ writeChain = <<>>
    /\ LogIdle

(***************************************************************************)
(* SpecScore: scoreRisk applied to every bounded list of findings.         *)
(***************************************************************************)
Categories ==
    {"destructive", "permissions", "sensitive-path", "network"}

\* The severities analyzers give to findings.
FindingSeverities == {"low", "medium", "high", "critical"}

FindingInputs ==
    [category : Categories, severity : FindingSeverities, description : {"d"}]

\* Policies that between them tell every two levels apart.
PolicyInputs ==
    { DEFAULT_ACTION_POLICY,
      [none |-> "ask", low |-> "warn", medium |-> "run", high |-> "warn",
       critical |-> "run"] }

FindingLists == UNION {[1..n -> FindingInputs] : n \in 0..MaxFindings}

ScoreInit ==
    /\ allFindings \in FindingLists
    /\ actionPolicy \in PolicyInputs
    /\ scored = NoAssessment
    /\ prevLevel = NoValue
    /\ ParseIdle
    /\ AssessIdle

\* One call of scoreRisk; the findings come from one or two analyzer results.
Score ==
    /\ scored = NoAssessment
    /\ \E k \in 0..Len(allFindings) :
          scored' = scoreRisk(
              << [findings |-> SubSeq(allFindings, 1, k), partial |-> Absent],
                 [findings |-> SubSeq(allFindings, k + 1, Len(allFindings)),
                  partial |-> Absent] >>,
              actionPolicy)
    /\ UNCHANGED <<allFindings, actionPolicy, prevLevel, parseVars, assessVars>>

\* A second call, on the same list with the severity of one finding raised.
ScoreEscalated ==
    /\ scored # NoAssessment
    /\ \E i \in 1..Len(allFindings), s \in FindingSeverities :
          /\ severityIndex(s) > severityIndex(allFindings[i].severity)
          /\ allFindings' = [allFindings EXCEPT ![i].severity = s]
          /\ scored' = scoreRisk(
                 <<[findings |-> allFindings', partial |-> Absent]>>,
                 actionPolicy)
    /\ prevLevel' = scored.risk_level
    /\ UNCHANGED <<actionPolicy, parseVars, assessVars>>

ScoreNext == Score \/ ScoreEscalated

SpecScore == ScoreInit /\ [][ScoreNext]_vars

(***************************************************************************)
(* SpecParse: parseCommand applied to every command built from up to       *)
(* MaxPieces pieces.                                                       *)
(***************************************************************************)
ParsePieces ==
    { <<"a">>, <<" ">>, <<"|">>, <<"&">>, <<";">>, <<"'">>, <<"\"">>,
      <<"\\">>, <<"$", "(">>, <<")">>, <<LongWord>> }

RECURSIVE Concat(_, _)
\* The pieces of a list from index k on, joined.
Concat(pieces, k) ==
    IF k > Len(pieces) THEN <<>> ELSE pieces[k] \o Concat(pieces, k + 1)

ParseInputs ==
    {Concat(ps, 1) : ps \in UNION {[1..n -> ParsePieces] : n \in 0..MaxPieces}}

ParseInit ==
    /\ command \in ParseInputs
    /\ parsed = NotParsed
    /\ ScoreIdle
    /\ AssessIdle

\* One call of parseCommand.
Parse ==
    /\ parsed = NotParsed
    /\ parsed' = parseCommand(command)
    /\ UNCHANGED <<command, scoreVars, assessVars>>

ParseNext == Parse

SpecParse == ParseInit /\ [][ParseNext]_vars

(***************************************************************************)
(* SpecLift: parseCommand applied to every command built from up to        *)
(* MaxLiftPieces pieces of substitutions.                                  *)
(***************************************************************************)
LiftPieces ==
    { <<"a">>, <<"b">>, <<" ">>, <<"$", "(">>, <<"<", "(">>, <<")">>,
      <<Backtick>>, <<"'">> }

LiftInputs ==
    {Concat(ps, 1) :
        ps \in UNION {[1..n -> LiftPieces] : n \in 0..MaxLiftPieces}}

LiftInit ==
    /\ command \in LiftInputs
    /\ parsed = NotParsed
    /\ ScoreIdle
    /\ AssessIdle

LiftNext == Parse

SpecLift == LiftInit /\ [][LiftNext]_vars

(***************************************************************************)
(* SpecAssess: assess_command requests, each with the queries of its       *)
(* packages in flight together, against an oracle that answers, fails or   *)
(* times out.                                                              *)
(***************************************************************************)
AssessInit ==
    /\ config \in ConfigInputs
    /\ osvCache = <<>>
    /\ requests = [r \in Requests |-> NoRequest]
    /\ writeChain = <<>>
    /\ LogIdle
    /\ ScoreIdle
    /\ ParseIdle

\* The state after a turn that took request r to req.
Turn(r, req) ==
    /\ requests' = [requests EXCEPT ![r] = req]
    /\ writeChain' = Logged(writeChain, requests[r], req)
    /\ UNCHANGED <<config, logger, scan, scoreVars, parseVars>>

\* A client calls assess_command; the client sends its requests in the
\* order of their numbers, each after the response to the one before.
Receive(r, cmd) ==
    /\ requests[r].status = "idle"
    /\ \A q \in Requests : q < r => requests[q].status = "responded"
    /\ Turn(r, Handle(cmd, config, osvCache))
    /\ UNCHANGED osvCache

\* Query i of request r waits for the oracle.
Waiting(r, i) ==
    /\ requests[r].status = "running"
    /\ i \in 1..Len(requests[r].queries)
    /\ requests[r].queries[i].state \in {"fetching", "reading"}

\* fetch resolves with a response, 2xx or not.
FetchResponds(r, i, ok) ==
    /\ Waiting(r, i)
    /\ requests[r].queries[i].state = "fetching"
    /\ IF ok
       THEN Turn(r, [requests[r] EXCEPT !.queries[i].state = "reading"])
       ELSE Turn(r, QueryDone(requests[r], i,
                        OsvError("OSV API returned HTTP 500"), config))
    /\ UNCHANGED osvCache

\* response.json() resolves with the body; a body of null makes data.vulns
\* throw inside the try block.
BodyArrives(r, i, data) ==
    /\ Waiting(r, i)
    /\ requests[r].queries[i].state = "reading"
    /\ IF data = JsonNull
       THEN /\ Turn(r, QueryDone(requests[r], i,
                           OsvError("OSV lookup failed: network error"),
                           config))
            /\ UNCHANGED osvCache
       ELSE LET vulns == IF "vulns" \in DOMAIN data THEN data.vulns ELSE <<>>
            IN  /\ osvCache' = CacheStore(osvCache,
                                   CacheKey(requests[r].packages[i]), vulns)
                /\ Turn(r, QueryDone(requests[r], i, OsvResult(vulns), config))

\* A variant of the failure that stores an empty list for the key.
LookupFails_Stores(r, i) ==
    /\ Waiting(r, i)
    /\ osvCache' = CacheStore(osvCache, CacheKey(requests[r].packages[i]),
                              <<>>)
    /\ Turn(r, QueryDone(requests[r], i,
                   OsvError("OSV lookup failed: network error"), config))

\* fetch or response.json() rejects: an I/O or JSON failure.
LookupFails(r, i) ==
    /\ Waiting(r, i)
    /\ Turn(r, QueryDone(requests[r], i,
                   OsvError("OSV lookup failed: network error"), config))
    /\ UNCHANGED osvCache

\* The timer of the query fires and aborts the lookup.
TimerFires(r, i) ==
    /\ Waiting(r, i)
    /\ requests[r].queries[i].timer
    /\ Turn(r, QueryDone(requests[r], i,
                   OsvError("OSV lookup failed: request timed out"), config))
    /\ UNCHANGED osvCache

\* The packages a command of the model may name.
QueryIndices == 1..2

AssessNext ==
    \/ \E r \in Requests, cmd \in AssessCommands : Receive(r, cmd)
    \/ \E r \in Requests, i \in QueryIndices, ok \in BOOLEAN :
           FetchResponds(r, i, ok)
    \/ \E r \in Requests, i \in QueryIndices, data \in ResponseBodies :
           BodyArrives(r, i, data)
    \/ \E r \in Requests, i \in QueryIndices : LookupFails(r, i)
    \/ \E r \in Requests, i \in QueryIndices : TimerFires(r, i)

SpecAssess == AssessInit /\ [][AssessNext]_vars

(***************************************************************************)
(* SpecCache: assess_command requests served concurrently, so that queries *)
(* for one key are in flight together, against a cache that is empty,      *)
(* one short of full, or full.                                             *)
(***************************************************************************)
\* The key of the i-th entry stored before the requests of the model.
EarlierKey(i) == "npm:earlier" \o ToString(i) \o "@1"

\* A cache after n successful lookups of different packages.
CacheAfter(n) == [i \in 1..n |-> [key |-> EarlierKey(i), vulns |-> <<>>]]

\* The caches the requests of the model may find.
CacheInputs ==
    { CacheAfter(0), CacheAfter(OSV_CACHE_MAX - 1), CacheAfter(OSV_CACHE_MAX) }

\* The commands the clients send: each installs one package.
CacheCommands ==
    { Chars("npm i a@1"), Chars("sudo npm install express@4.16.0") }

\* The JSON bodies of the oracle's 2xx responses: without vulns, and with a
\* vulnerability.
CacheBodies ==
    { [note |-> "no vulns"],
      [vulns |-> <<[id |-> "CVE-2024-0001",
                    severity |-> <<[type |-> "CVSS_V3", score |-> "7.0"]>>]>>] }

\* The configuration of the server: its packageAllowlist names package a.
CacheConfig == [DEFAULT_CONFIG EXCEPT !.packageAllowlist = <<"a">>]

CacheInit ==
    /\ config = CacheConfig
    /\ osvCache \in CacheInputs
    /\ requests = [r \in Requests |-> NoRequest]
    /\ writeChain = <<>>
    /\ LogIdle
    /\ ScoreIdle
    /\ ParseIdle

\* A client calls assess_command while earlier requests may still be
\* running.
ReceiveConcurrently(r, cmd) ==
    /\ requests[r].status = "idle"
    /\ \A q \in Requests : q < r => requests[q].status # "idle"
    /\ Turn(r, Handle(cmd, config, osvCache))
    /\ UNCHANGED osvCache

CacheNext ==
    \/ \E r \in Requests, cmd \in CacheCommands : ReceiveConcurrently(r, cmd)
    \/ \E r \in Requests, ok \in BOOLEAN : FetchResponds(r, 1, ok)
    \/ \E r \in Requests, data \in CacheBodies : BodyArrives(r, 1, data)
    \/ \E r \in Requests : LookupFails(r, 1)
    \/ \E r \in Requests : TimerFires(r, 1)

SpecCache == CacheInit /\ [][CacheNext]_vars

(***************************************************************************)
(* SpecDestructive: one command, rm -rf with a target or git with          *)
(* arguments, run through parseCommand and then the destructive analyzer.  *)
(***************************************************************************)
MaxTargetPieces == 3
MaxGitArgs == 3

\* The pieces of the target of rm -rf: the root, the wildcard, the tilde,
\* $HOME, the home directory, and a name.
TargetPieces ==
    { Chars("/"), Chars("*"), Chars("~"), Chars("$HOME"), Chars(HomeDir),
      Chars("x") }

RmTargets ==
    {Concat(ps, 1) :
        ps \in UNION {[1..n -> TargetPieces] : n \in 1..MaxTargetPieces}}

\* The arguments of git, each with the space before it.
GitArgs ==
    { Chars(" push"), Chars(" -f"), Chars(" --force"),
      Chars(" --force-with-lease"), Chars(" main"), Chars(" o/master"),
      Chars(" x") }

GitArgLists == UNION {[1..n -> GitArgs] : n \in 1..MaxGitArgs}

DestructiveInputs ==
    {Chars("rm -rf ") \o target : target \in RmTargets}
        \cup {Chars("git") \o Concat(as, 1) : as \in GitArgLists}

DestructiveInit ==
    /\ command \in DestructiveInputs
    /\ parsed = NotParsed
    /\ ScoreIdle
    /\ AssessIdle

\* parseCommand, then analyze of the destructive analyzer on its result.
AnalyzeDestructive ==
    /\ parsed = NotParsed
    /\ parsed' = parseCommand(command)
    /\ allFindings' = IF parsed'.threw THEN <<>>
                      ELSE destructiveAnalyze(parsed'.results)
    /\ UNCHANGED <<command, actionPolicy, scored, prevLevel, assessVars>>

DestructiveNext == AnalyzeDestructive

SpecDestructive == DestructiveInit /\ [][DestructiveNext]_vars

(***************************************************************************)
(* SpecSensitive: one command, a verb with path arguments and maybe a      *)
(* redirect, run through parseCommand and then the sensitive-path          *)
(* analyzer.                                                               *)
(***************************************************************************)
MaxPathArgs == 2

\* A reading verb, a writing verb, echo, and a verb that is neither.
PathVerbs == { Chars("cat"), Chars("cp"), Chars("echo"), Chars("ls") }

\* Paths of every tier, a path that matches no pattern, and a flag.
PathInputs ==
    { Chars("~/.ssh/k"), Chars("~/.claude/s"), Chars(".cursorrules"),
      Chars("CLAUDE.md"), Chars("/etc/shadow"), Chars("/etc/passwd"),
      Chars(".env"), Chars("a.pem"), Chars("x"), Chars("-f") }

\* The arguments of a command, each with the space before it.
PathArgLists ==
    UNION {[1..n -> {Chars(" ") \o path : path \in PathInputs}] :
              n \in 0..MaxPathArgs}

\* No redirect, or one to a path.
RedirectInputs == {<<>>} \cup {Chars(" > ") \o path : path \in PathInputs}

SensitiveInputs ==
    {verb \o Concat(as, 1) \o redirect :
        verb \in PathVerbs, as \in PathArgLists, redirect \in RedirectInputs}

SensitiveInit ==
    /\ command \in SensitiveInputs
    /\ parsed = NotParsed
    /\ ScoreIdle
    /\ AssessIdle

\* parseCommand, then analyze of the sensitive-path analyzer on its result.
AnalyzeSensitive ==
    /\ parsed = NotParsed
    /\ parsed' = parseCommand(command)
    /\ allFindings' = IF parsed'.threw THEN <<>>
                      ELSE sensitivePathAnalyze(parsed'.results)
    /\ UNCHANGED <<command, actionPolicy, scored, prevLevel, assessVars>>

SensitiveNext == AnalyzeSensitive

SpecSensitive == SensitiveInit /\ [][SensitiveNext]_vars

(***************************************************************************)
(* SpecNetwork: one command of segments joined by | and ;, run through     *)
(* parseCommand and then the network analyzer.                             *)
(***************************************************************************)
MaxSegments == 3

\* A segment that reads sensitive data, one without a finding, raw sockets
\* with and without a clear-text URL, and a download.
SegmentInputs ==
    { Chars("cat .env"), Chars("ls"), Chars("nc e 80"),
      Chars("nc http://e.io"), Chars("curl https://e.io") }

\* The segments after the first, each with the operator before it.
JoinedInputs ==
    {op \o segment : op \in {Chars(" | "), Chars(" ; ")},
                     segment \in SegmentInputs}

NetworkInputs ==
    {first \o Concat(rest, 1) :
        first \in SegmentInputs,
        rest \in UNION {[1..n -> JoinedInputs] : n \in 0..(MaxSegments - 1)}}

NetworkInit ==
    /\ command \in NetworkInputs
    /\ parsed = NotParsed
    /\ ScoreIdle
    /\ AssessIdle

\* parseCommand, then analyze of the network analyzer on its result.
AnalyzeNetwork ==
    /\ parsed = NotParsed
    /\ parsed' = parseCommand(command)
    /\ allFindings' = IF parsed'.threw THEN <<>>
                      ELSE networkAnalyze(parsed'.results, <<>>)
    /\ UNCHANGED <<command, actionPolicy, scored, prevLevel, assessVars>>

NetworkNext == AnalyzeNetwork

SpecNetwork == NetworkInit /\ [][NetworkNext]_vars

(***************************************************************************)
(* SpecLog: logger.ts.  initLogger and writeLogEntry are called in any     *)
(* order; the writes they start run when the event loop reaches them.  A   *)
(* step is one call, or one turn of the event loop: the start of doWrite   *)
(* for the entry a chain has reached, or the completion of the mkdir or    *)
(* the appendFile an entry waits for, with the continuation that follows.  *)
(* A line is named by the number of the writeLogEntry call that built it.  *)
(***************************************************************************)
MaxWrites == 3
MaxInits == 2

\* dirname(filePath)
Dirname(filePath) ==
    LET slashes == {i \in 1..Len(filePath) : SubSeq(filePath, i, i) = "/"}
    IN  IF slashes = {} THEN "."
        ELSE IF LastIndex(slashes) = 1 THEN "/"
        ELSE SubSeq(filePath, 1, LastIndex(slashes) - 1)

\* The chain without its entry k.
Settled(chain, k) == SubSeq(chain, 1, k - 1) \o SubSeq(chain, k + 1, Len(chain))

\* A variant in which writeLogEntry starts doWrite without chaining it to
\* the write before: any entry that has not started may start.
CanStart_Unchained(chain, k) == chain[k].stage = "queued"

\* writeChain.then(() => doWrite(path, line)): doWrite for an entry starts
\* when every entry chained before it has settled.
CanStart(chain, k) == k = 1 /\ chain[k].stage = "queued"

LogInit ==
    /\ logger \in {[ModuleLogger EXCEPT !.dirs = d] :
                      d \in SUBSET {Dirname(p) : p \in LogPaths}}
    /\ scan = NoScan
    /\ config = DEFAULT_CONFIG
    /\ osvCache = <<>>
    /\ requests = [r \in Requests |-> NoRequest]
    /\ writeChain = <<>>
    /\ ScoreIdle
    /\ ParseIdle

\* What the logger's steps leave alone.
LogKeeps == UNCHANGED <<scoreVars, parseVars, handlerVars, scan>>

\* initLogger(path)
InitLogger(path) ==
    /\ logger.inits < MaxInits
    /\ logger' = [logger EXCEPT !.logFilePath = path,
                                !.dirEnsured = FALSE,
                                !.chains = Append(@, <<>>),
                                !.inits = @ + 1]
    /\ LogKeeps

\* writeLogEntry(...): nothing when logging is disabled, else the line is
\* chained to the current writeChain with the path read now.
WriteLogEntry ==
    /\ logger.calls < MaxWrites
    /\ logger' =
           IF logger.logFilePath = Disabled
           THEN [logger EXCEPT !.calls = @ + 1]
           ELSE [logger EXCEPT
                    !.calls = @ + 1,
                    !.chains[Len(logger.chains)] =
                        Append(@, [call |-> logger.calls + 1,
                                   path |-> logger.logFilePath,
                                   stage |-> "queued"])]
    /\ LogKeeps

\* doWrite starts for entry k of chain c: it reads dirEnsured and calls
\* mkdir, or goes straight to appendFile.
StartWrite(c, k) ==
    /\ CanStart(logger.chains[c], k)
    /\ logger' = [logger EXCEPT
                     !.chains[c][k].stage =
                         IF logger.dirEnsured THEN "append" ELSE "mkdir"]
    /\ LogKeeps

\* The callbacks of promises run before the completion of any I/O: no
\* doWrite is waiting to start.
Drained ==
    \A c \in 1..Len(logger.chains) :
        \A k \in 1..Len(logger.chains[c]) : ~CanStart(logger.chains[c], k)

\* The mkdir of entry k of chain c completes: doWrite sets dirEnsured and
\* calls appendFile, or it rejects and the chain swallows the error.
MkdirDone(c, k, ok) ==
    /\ logger.chains[c][k].stage = "mkdir"
    /\ Drained
    /\ logger' =
           IF ok
           THEN [logger EXCEPT
                    !.dirs = @ \cup {Dirname(logger.chains[c][k].path)},
                    !.dirEnsured = TRUE,
                    !.chains[c][k].stage = "append"]
           ELSE [logger EXCEPT
                    !.failed = @ \cup {logger.chains[c][k].call},
                    !.chains[c] = Settled(@, k)]
    /\ LogKeeps

\* The appendFile of entry k of chain c completes: the line is in the file,
\* or it rejects (it always does when the directory is missing) and the
\* chain swallows the error.
AppendDone(c, k, ok) ==
    /\ logger.chains[c][k].stage = "append"
    /\ Drained
    /\ ok => Dirname(logger.chains[c][k].path) \in logger.dirs
    /\ logger' =
           IF ok
           THEN [logger EXCEPT
                    !.files[logger.chains[c][k].path] =
                        Append(@, logger.chains[c][k].call),
                    !.chains[c] = Settled(@, k)]
           ELSE [logger EXCEPT
                    !.failed = @ \cup {logger.chains[c][k].call},
                    !.chains[c] = Settled(@, k)]
    /\ LogKeeps

\* The writes the event loop can turn to: entry k of chain c.
Writes ==
    {<<c, k>> \in (1..MaxInits + 1) \X (1..MaxWrites) :
        c <= Len(logger.chains) /\ k <= Len(logger.chains[c])}

\* One turn of the event loop for the logger.
LogTurn ==
    \E w \in Writes :
        \/ StartWrite(w[1], w[2])
        \/ \E ok \in BOOLEAN : MkdirDone(w[1], w[2], ok)
        \/ \E ok \in BOOLEAN : AppendDone(w[1], w[2], ok)

LogNext ==
    \/ \E path \in LogPaths \cup {Disabled} : InitLogger(path)
    \/ WriteLogEntry
    \/ \E w \in Writes : StartWrite(w[1], w[2])
    \/ \E w \in Writes, ok \in BOOLEAN : MkdirDone(w[1], w[2], ok)
    \/ \E w \in Writes, ok \in BOOLEAN : AppendDone(w[1], w[2], ok)

\* The event loop runs every callback that is ready, and every mkdir and
\* appendFile completes.
SpecLog == LogInit /\ [][LogNext]_vars /\ WF_vars(LogTurn)

(***************************************************************************)
(* SpecScan: dep-scan.ts, scanManifest.  One call scans the packages that  *)
(* parseManifest returned; a step is the call up to its first await on the *)
(* oracle, or the turn in which one query resolves, with the continuation  *)
(* of Promise.all when it was the last query of its batch.                 *)
(***************************************************************************)
CONCURRENCY_LIMIT == 10
MaxPackages == 12

\* The k-th package of the manifest; the third has no version.
ManifestPackage(k) ==
    [name |-> "P" \o ToString(k), version |-> IF k = 3 THEN "" ELSE "1",
     ecosystem |-> "npm"]

\* The packages parseManifest returned.
ManifestInputs ==
    {[k \in 1..n |-> ManifestPackage(k)] : n \in 0..MaxPackages}

\* The allowlists scanDependencies hands over, lower-cased.
AllowlistInputs == { {}, {"p2", "p4@1"} }

\* What the oracle may answer for entry k of toCheck: the first entry of
\* each of the first two batches has the answers that matter, the others
\* are clean.
ScanAnswers(k) ==
    IF k % CONCURRENCY_LIMIT # 1 \/ k > 2 * CONCURRENCY_LIMIT
    THEN {OsvResult(<<>>)}
    ELSE {OsvResult(<<>>),
          OsvError("OSV lookup failed: HTTP 500"),
          OsvResult(<<[id |-> "CVE-1"]>>),
          OsvResult(<<[summary |-> "no id"]>>)}

\* toCheck: the packages with a version that the allowlist does not name.
ToCheck(packages, allowlist) ==
    SelectSeq(packages, LAMBDA pkg :
        /\ pkg.version # ""
        /\ toLowerCase(pkg.name \o "@" \o pkg.version) \notin allowlist
        /\ toLowerCase(pkg.name) \notin allowlist)

\* The indices of toCheck.slice(i, i + CONCURRENCY_LIMIT).
Batch(toCheck, i) ==
    {k \in 1..Len(toCheck) : k > i /\ k <= i + CONCURRENCY_LIMIT}

\* A finding of scanManifest: that of package-vuln with the source.
ScanFinding(f, pkg) ==
    [category |-> f.category, severity |-> f.severity,
     description |-> f.description,
     source |-> [file |-> "package.json",
                 context |-> pkg.name \o "@" \o pkg.version]]

\* The findings the loop over the results of a batch pushes for entry k.
ScanFindings(s, k) ==
    [j \in 1..Len(FindingsOf(s.toCheck[k], s.results[k])) |->
        ScanFinding(FindingsOf(s.toCheck[k], s.results[k])[j], s.toCheck[k])]

RECURSIVE BatchFindings(_, _, _)
\* The findings of the entries from k to last, in order.
BatchFindings(s, k, last) ==
    IF k > last THEN <<>>
    ELSE ScanFindings(s, k) \o BatchFindings(s, k + 1, last)

\* The loop head at i: the scan returns, or the queries of the batch at i
\* start, all in the same turn.
LoopAt(s, i) ==
    IF i >= Len(s.toCheck)
    THEN [s EXCEPT !.status = "done", !.i = i]
    ELSE [s EXCEPT
             !.status = "scanning", !.i = i,
             !.inFlight = Batch(s.toCheck, i),
             !.queried = [k \in 1..Len(s.toCheck) |->
                             IF k \in Batch(s.toCheck, i)
                             THEN s.queried[k] + 1 ELSE s.queried[k]]]

\* The continuation of Promise.all for the batch at s.i: the loop over the
\* results throws on a vulnerability without id and the scan rejects, else
\* it pushes the findings and the loop goes on.
BatchDone(s) ==
    IF \E k \in Batch(s.toCheck, s.i) : ThrowsOn(s.results[k])
    THEN [s EXCEPT !.status = "rejected"]
    ELSE LoopAt([s EXCEPT
                    !.findings =
                        @ \o BatchFindings(s, s.i + 1,
                                 IF s.i + CONCURRENCY_LIMIT < Len(s.toCheck)
                                 THEN s.i + CONCURRENCY_LIMIT
                                 ELSE Len(s.toCheck)),
                    !.partial =
                        @ \/ \E k \in Batch(s.toCheck, s.i) :
                                 s.results[k].error # Absent],
                s.i + CONCURRENCY_LIMIT)

ScanInit ==
    /\ scan = NoScan
    /\ logger = ModuleLogger
    /\ config = DEFAULT_CONFIG
    /\ osvCache = <<>>
    /\ requests = [r \in Requests |-> NoRequest]
    /\ writeChain = <<>>
    /\ ScoreIdle
    /\ ParseIdle

\* What the scan's steps leave alone.
ScanKeeps == UNCHANGED <<scoreVars, parseVars, handlerVars, logger>>

\* scanManifest(filePath, osvTimeout, allowlist), after parseManifest.
ScanManifest(packages, allowlist) ==
    /\ scan.status = "idle"
    /\ scan' = LoopAt([scan EXCEPT
                          !.packages = packages,
                          !.allowlist = allowlist,
                          !.toCheck = ToCheck(packages, allowlist),
                          !.results = [k \in 1..Len(ToCheck(packages,
                                                        allowlist)) |->
                                          NoResult],
                          !.queried = [k \in 1..Len(ToCheck(packages,
                                                        allowlist)) |-> 0]],
                      0)
    /\ ScanKeeps

\* The query of entry k resolves with result.
QueryResolves(k, result) ==
    /\ scan.status = "scanning"
    /\ k \in scan.inFlight
    /\ result \in ScanAnswers(k)
    /\ scan' =
           IF scan.inFlight = {k}
           THEN BatchDone([scan EXCEPT !.inFlight = {},
                                       !.results[k] = result])
           ELSE [scan EXCEPT !.inFlight = @ \ {k}, !.results[k] = result]
    /\ ScanKeeps

ScanNext ==
    \/ \E packages \in ManifestInputs, allowlist \in AllowlistInputs :
           ScanManifest(packages, allowlist)
    \/ \E k \in 1..MaxPackages :
           \E result \in ScanAnswers(k) : QueryResolves(k, result)

SpecScan == ScanInit /\ [][ScanNext]_vars

(***************************************************************************)
(* Claims about the scorer (SpecScore).                                    *)
(***************************************************************************)
\* The order none < low < medium < high < critical, stated on its own.
Rank == [none |-> 0, low |-> 1, medium |-> 2, high |-> 3, critical |-> 4]

\* The number of findings of a severity.
NumberOf(fs, sev) == Cardinality({i \in 1..Len(fs) : fs[i].severity = sev})

CategoriesOf(fs) == {fs[i].category : i \in 1..Len(fs)}

HasDangerousPair(fs) ==
    \/ {"permissions", "network"} \subseteq CategoriesOf(fs)
    \/ {"permissions", "sensitive-path"} \subseteq CategoriesOf(fs)
    \/ {"network", "sensitive-path"} \subseteq CategoriesOf(fs)

MaxIndividual(fs) ==
    CHOOSE l \in RiskLevels :
        /\ \E i \in 1..Len(fs) : fs[i].severity = l
        /\ \A i \in 1..Len(fs) : Rank[fs[i].severity] <= Rank[l]

\* The level section 4.9 of the specification gives to a list of findings.
SpecifiedLevel(fs) ==
    IF Len(fs) = 0 THEN "none"
    ELSE IF NumberOf(fs, "critical") >= 1 THEN "critical"
    ELSE IF NumberOf(fs, "high") >= 2 THEN "critical"
    ELSE IF /\ NumberOf(fs, "high") >= 1
            /\ NumberOf(fs, "medium") >= 1
            /\ HasDangerousPair(fs) THEN "critical"
    ELSE IF NumberOf(fs, "medium") >= 3 THEN "high"
    ELSE MaxIndividual(fs)

IsScored == scored # NoAssessment

\* C1: for every list of findings, the risk_level scoreRisk returns is none
\* for the empty list, else critical with a critical finding, else critical
\* with two highs, else critical with a high, a medium and a dangerous pair
\* of categories, else high with three mediums, else the maximum severity.
C1_RiskLevelRule ==
    IsScored => scored.risk_level = SpecifiedLevel(allFindings)

\* C1 witness: one high, one medium, a dangerous pair, and critical returned.
C1_Witness ==
    /\ IsScored
    /\ NumberOf(allFindings, "critical") = 0
    /\ NumberOf(allFindings, "high") = 1
    /\ NumberOf(allFindings, "medium") = 1
    /\ HasDangerousPair(allFindings)
    /\ scored.risk_level = "critical"

\* C2: severity dominance: for a non-empty list, the risk_level returned is
\* at least the severity of every finding of the list.
C2_SeverityDominance ==
    (IsScored /\ Len(allFindings) > 0) =>
        \A i \in 1..Len(allFindings) :
            Rank[scored.risk_level] >= Rank[allFindings[i].severity]

\* C2 witness: a scored list that holds findings of different severities,
\* where the level is that of the highest.
C2_Witness ==
    /\ IsScored
    /\ Len(allFindings) = 3
    /\ allFindings[1].severity = "low"
    /\ allFindings[2].severity = "high"
    /\ allFindings[3].severity = "medium"
    /\ scored.risk_level = "high"

\* C3: monotonicity: raising the severity of one finding of a list (same
\* category, same place) never lowers the risk_level scoreRisk returns.
C3_Monotone ==
    prevLevel # NoValue => Rank[scored.risk_level] >= Rank[prevLevel]

\* C3 witness: a list scored high, then scored critical with one finding
\* raised.
C3_Witness ==
    /\ prevLevel = "high"
    /\ scored.risk_level = "critical"
    /\ NumberOf(allFindings, "critical") = 0

\* C4: the action scoreRisk returns is policy[risk_level], also without
\* findings (policy[none]).
C4_ActionIsPolicyOfLevel ==
    IsScored => scored.action = actionPolicy[scored.risk_level]

\* C4 witness: no findings, and a policy whose action for none is not run.
C4_Witness ==
    /\ IsScored
    /\ Len(allFindings) = 0
    /\ actionPolicy["none"] = "ask"
    /\ scored.action = "ask"

(***************************************************************************)
(* Claims about the handler (SpecAssess).                                  *)
(***************************************************************************)
\* The handler has answered request r.
Responded(r) == requests[r].status = "responded"

\* A query of the request returned an error: a status that is not 2xx, a
\* timeout, or an I/O or JSON failure.
QueryErred(req) ==
    \E i \in 1..Len(req.queries) :
        req.queries[i].state = "done" /\ req.queries[i].result.error # Absent

\* C5: for every request, the partial field of the assessment is true if
\* and only if at least one oracle query made for the request returned an
\* error; otherwise the field is absent, and it is never false.
C5_PartialIffQueryError ==
    \A r \in Requests :
        Responded(r) =>
            /\ requests[r].response.partial \in {"true", Absent}
            /\ requests[r].response.partial = "true"
                   <=> QueryErred(requests[r])

\* What the analyzer registered at place i settled with, wherever it stands
\* in the order of completion.
SettledBy(req, i) ==
    req.settled[CHOOSE k \in 1..Len(req.settled) : req.settled[k].index = i]
        .value

\* The findings the analyzer registered at place i emitted for the request,
\* in the order in which it emits them: for package-vuln, the findings of
\* the packages in the order of their extraction from the command.
EmittedBy(req, i) ==
    IF i = PackageVulnIndex
    THEN Flatten([k \in 1..Len(req.packages) |->
                     FindingsOf(req.packages[k], req.queries[k].result)], 1)
    ELSE SettledBy(req, i).findings

\* The findings of every analyzer, in the order of registration.
InRegistrationOrder(req) ==
    Flatten([i \in 1..Len(analyzers) |-> EmittedBy(req, i)], 1)

\* The handler answered request r with the assessment of scoreRisk.
Scored(r) ==
    /\ Responded(r)
    /\ ~requests[r].response.isError
    /\ requests[r].calls.analyzers > 0

\* C6: within one request, the details are ordered by the registration
\* order of the analyzers and, within an analyzer, by its emission order
\* (for package-vuln the order in which the packages were extracted),
\* whatever the order in which the analyzers and the queries completed.
C6_DetailsInRegistrationOrder ==
    \A r \in Requests :
        Scored(r) =>
            requests[r].response.details
                = Details(InRegistrationOrder(requests[r]))

\* A request whose second query completed before its first, both with a
\* finding, and whose package-vuln analyzer settled after code-injection,
\* which is registered after it.
C6_Witness ==
    \E r \in Requests :
        /\ Scored(r)
        /\ Len(requests[r].resolved) = 2
        /\ requests[r].resolved[1].index = 2
        /\ requests[r].settled[Len(analyzers)].index = PackageVulnIndex
        /\ PackageVulnIndex < Len(analyzers)
        /\ \A k \in 1..2 :
               Len(FindingsOf(requests[r].packages[k],
                              requests[r].queries[k].result)) = 1
        /\ \E k \in 1..Len(requests[r].response.details) :
               requests[r].response.details[k].category = "code-injection"

\* Some entry of the allowlist is a prefix of the command.
HasAllowlistedPrefix(cmd, allowlist) ==
    \E i \in 1..Len(allowlist) :
        /\ Len(allowlist[i]) <= Len(cmd)
        /\ \A k \in 1..Len(allowlist[i]) : cmd[k] = allowlist[i][k]

IsParsed == parsed.message # NoValue

Returned == IsParsed /\ ~parsed.threw

\* C8: parseCommand throws exactly when the input, as given, is longer than
\* 10,000 characters, and then with a 'Command too long' error; every
\* shorter input returns a segment list.
C8_ThrowsIffTooLong ==
    IsParsed =>
        /\ parsed.threw <=> StrLen(command) > 10000
        /\ parsed.threw => parsed.message = "Command too long"

\* C8 witness: an input of at most 10,000 characters that grows beyond
\* 10,000 once its subshell body is appended, and is parsed.
C8_Witness ==
    /\ Returned
    /\ StrLen(command) = 10000
    /\ StrLen(expandSubshells(command)) > 10000
    /\ Len(parsed.results) > 1

Operators == {"|", "||", "&&", ";"}

LastResult == parsed.results[Len(parsed.results)]

\* C9 as claimed: in every list parseCommand returns, the last segment has
\* operator null and every earlier segment an operator of {|, ||, &&, ;}.
C9_LastOperatorNull ==
    (Returned /\ Len(parsed.results) > 0) =>
        /\ LastResult.operator = Null
        /\ \A i \in 1..(Len(parsed.results) - 1) :
               parsed.results[i].operator \in Operators

\* The text splitByOperator walks over, and what it returns for it.
Lifted == expandSubshells(command)
SplitOfLifted == splitByOperator(Lifted)

RECURSIVE Rebuilt(_, _)
\* The segments of a split from index k on, each followed by its operator.
Rebuilt(segs, k) ==
    IF k > Len(segs) THEN <<>>
    ELSE segs[k].segment
         \o (IF segs[k].operator = Null THEN <<>> ELSE Chars(segs[k].operator))
         \o Rebuilt(segs, k + 1)

\* The indices of the split segments that are not blank, in order.
NonBlank(segs) == {k \in 1..Len(segs) : trim(segs[k].segment) # <<>>}

\* The k-th smallest element of a set of numbers.
Nth(S, k) == CHOOSE x \in S : Cardinality({y \in S : y <= x}) = k

\* C9 as amended: every segment but the last has an operator of
\* {|, ||, &&, ;}; the last has operator null when text that is not blank
\* follows the last operator, and otherwise keeps its operator; and every
\* operator is the one that follows the segment's text: the split segments,
\* each followed by its operator, rebuild the text that was split, up to a
\* blank rest, and the returned segments are the ones that are not blank.
C9_OperatorFollowsSegment ==
    Returned =>
        LET segs == SplitOfLifted
            flat == Rebuilt(segs, 1)
            rest == SubSeq(Lifted, Len(flat) + 1, Len(Lifted))
            kept == NonBlank(segs)
            n == Len(parsed.results)
        IN  /\ Len(flat) <= Len(Lifted)
            /\ SubSeq(Lifted, 1, Len(flat)) = flat
            /\ trim(rest) = <<>>
            /\ n = Cardinality(kept)
            /\ \A i \in 1..n :
                   /\ parsed.results[i].rawSegment
                          = trim(segs[Nth(kept, i)].segment)
                   /\ parsed.results[i].operator = segs[Nth(kept, i)].operator
            /\ \A i \in 1..(n - 1) : parsed.results[i].operator \in Operators
            /\ n > 0 => LastResult.operator \in Operators \cup {Null}
            /\ (n > 0 /\ LastResult.operator = Null) =>
                   /\ rest = <<>>
                   /\ Nth(kept, n) = Len(segs)
            /\ (n > 0 /\ LastResult.operator # Null) =>
                   /\ trim(Lifted) # <<>>
                   /\ trim(Lifted)[Len(trim(Lifted))] \in {"|", "&", ";"}

\* C9 witness: an input without substitutions that ends with an operator,
\* whose last segment keeps that operator after an earlier segment.
C9_Witness ==
    /\ Returned
    /\ Lifted = command
    /\ Len(parsed.results) = 2
    /\ parsed.results[1].operator \in Operators
    /\ parsed.results[2].operator \in Operators

\* The bodies X of the substitutions $(X), <(X) and of the backtick pairs
\* of a text.
\* The closing parenthesis of the substitution whose body starts at index b:
\* the first index where the closing parentheses outnumber the opening ones.
Closes(s, b, j) ==
    Cardinality({k \in b..j : s[k] = ")"})
        = Cardinality({k \in b..j : s[k] = "("}) + 1

ClosingOf(s, b) ==
    IF \E j \in b..Len(s) : Closes(s, b, j)
    THEN CHOOSE j \in b..Len(s) :
             Closes(s, b, j) /\ \A k \in b..(j - 1) : ~Closes(s, b, k)
    ELSE 0

ParenBodies(s) ==
    { SubSeq(s, i + 2, ClosingOf(s, i + 2) - 1) :
        i \in {k \in 1..(Len(s) - 1) :
                  /\ s[k] \in {"$", "<"}
                  /\ s[k + 1] = "("
                  /\ ClosingOf(s, k + 2) # 0} }

Ticks(s) == {k \in 1..Len(s) : s[k] = Backtick}

\* Backticks pair up from the left: the odd ones open, the even ones close.
BacktickBodies(s) ==
    { SubSeq(s, Nth(Ticks(s), 2 * m - 1) + 1, Nth(Ticks(s), 2 * m) - 1) :
        m \in 1..(Cardinality(Ticks(s)) \div 2) }

Bodies(s) == ParenBodies(s) \cup BacktickBodies(s)

\* The verb of a body: the first token of its first segment.
HasVerb(body) ==
    /\ Len(parseCommand(body).results) > 0
    /\ parseCommand(body).results[1].verb # ""
VerbOf(body) == parseCommand(body).results[1].verb

VerbsReturned == {parsed.results[k].verb : k \in 1..Len(parsed.results)}

\* Every quote of the text is closed.
QuotesClosed(s) == Cardinality({k \in 1..Len(s) : s[k] = "'"}) % 2 = 0

\* C10 as claimed (subshell completeness): for every $(X), backtick pair or
\* <(X) of an input whose quotes are closed, nested or quoted ones included,
\* the first token of X is the verb of some segment parseCommand returns.
C10_SubshellCompleteness ==
    (Returned /\ QuotesClosed(command)) =>
        \A body \in Bodies(command) :
            HasVerb(body) => VerbOf(body) \in VerbsReturned

RECURSIVE SpecifiedSplit(_, _, _, _, _)
\* The boundaries the quote state of the specification gives, from index i
\* on: a quote opens a region that ends at the next occurrence of the same
\* quote character, and a backslash escapes the next character only outside
\* a region.  quoteChar is "" outside a region.
SpecifiedSplit(cmd, i, current, quoteChar, results) ==
    IF i > Len(cmd) THEN results
    ELSE IF quoteChar # ""
    THEN SpecifiedSplit(cmd, i + 1, Append(current, cmd[i]),
                        IF cmd[i] = quoteChar THEN "" ELSE quoteChar, results)
    ELSE IF cmd[i] = "\\"
    THEN SpecifiedSplit(cmd, i + 2,
                        current \o SubSeq(cmd, i,
                                       IF i < Len(cmd) THEN i + 1 ELSE i),
                        "", results)
    ELSE IF cmd[i] \in {"'", "\""}
    THEN SpecifiedSplit(cmd, i + 1, Append(current, cmd[i]), cmd[i], results)
    ELSE IF i < Len(cmd) /\ cmd[i] \in {"&", "|"} /\ cmd[i + 1] = cmd[i]
    THEN SpecifiedSplit(cmd, i + 2, <<>>, "",
                        Append(results, [segment |-> current,
                                         operator |-> cmd[i] \o cmd[i + 1]]))
    ELSE IF cmd[i] \in {"|", ";"}
    THEN SpecifiedSplit(cmd, i + 1, <<>>, "",
                        Append(results, [segment |-> current,
                                         operator |-> cmd[i]]))
    ELSE SpecifiedSplit(cmd, i + 1, Append(current, cmd[i]), "", results)

\* The boundaries of a split: the segments that end at an operator.
Boundaries(segs) == SelectSeq(segs, LAMBDA seg : seg.operator # Null)

\* C11 as claimed: splitByOperator emits a boundary at |, ||, && or ;
\* exactly when the operator lies outside quotes and is not escaped by a
\* backslash, for the quote state the specification defines.
C11_BoundaryIffUnquoted ==
    Returned =>
        Boundaries(SplitOfLifted) = SpecifiedSplit(Lifted, 1, <<>>, "", <<>>)


(***************************************************************************)
(* Claims about the oracle cache (SpecCache)                               *)
(***************************************************************************)
\* The keys of a cache, in the order of the Map.
Keys(cache) == [i \in 1..Len(cache) |-> cache[i].key]

\* C12: after any interleaving of oracle queries (hits, misses, successes,
\* failures, queries in flight together for one key) the oracle cache holds
\* at most 500 entries.
C12_CacheBounded == Len(osvCache) <= OSV_CACHE_MAX

\* A full cache has stored the key of a request and evicted for it.
C12_Witness ==
    /\ Len(osvCache) = OSV_CACHE_MAX
    /\ osvCache[1].key # EarlierKey(1)
    /\ \E r \in Requests :
           /\ Responded(r)
           /\ Len(requests[r].packages) = 1
           /\ osvCache[Len(osvCache)].key = CacheKey(requests[r].packages[1])


\* C13 as claimed: once a key is stored, the list held for it is not
\* replaced or changed for as long as the key stays in the cache, also when
\* two queries for the key missed the cache together and receive different
\* responses.  (An entry found unchanged at its place, or one place
\* earlier after an eviction, is the entry of its key.)
C13_StoredEntryNeverMutated ==
    [][\A i \in 1..Len(osvCache) :
           \/ i <= Len(osvCache') /\ osvCache'[i] = osvCache[i]
           \/ i > 1 /\ osvCache'[i - 1] = osvCache[i]
           \/ ~CacheHas(osvCache', osvCache[i].key)
           \/ CacheGet(osvCache', osvCache[i].key) = osvCache[i].vulns]_vars

\* old is the beginning of new.
IsPrefix(old, new) ==
    Len(old) <= Len(new) /\ SubSeq(new, 1, Len(old)) = old

\* The step is the store step of a successful lookup: a query that was
\* reading the body of a 2xx response is done without an error.
StoreStep ==
    \E r \in Requests :
        \E i \in 1..Len(requests[r].queries) :
            /\ requests[r].queries[i].state = "reading"
            /\ requests'[r].queries[i].state = "done"
            /\ requests'[r].queries[i].result.error = Absent

\* The step starts a query that is a cache hit.
HitStep ==
    \E r \in Requests :
        /\ requests[r].status = "idle"
        /\ \E i \in 1..Len(requests'[r].packages) :
               /\ ~NoVersion(requests'[r].packages[i])
               /\ CacheHas(osvCache, CacheKey(requests'[r].packages[i]))

\* C14: a step that removes an entry of the cache removes the entry whose
\* insertion is oldest, is the store step of a successful lookup and starts
\* from a cache of 500 entries; every other step keeps the entries and
\* their order; a cache hit changes nothing of the cache.
C14_EvictsOldestOnStoreAtCapacity ==
    [][/\ \/ IsPrefix(Keys(osvCache), Keys(osvCache'))
          \/ /\ Len(osvCache) = OSV_CACHE_MAX
             /\ StoreStep
             /\ IsPrefix(Keys(Tail(osvCache)), Keys(osvCache'))
       /\ HitStep => osvCache' = osvCache]_vars

\* The cache was full, has evicted its oldest entry for the key of a
\* request, and a later request was a hit.
C14_Witness ==
    /\ Len(osvCache) = OSV_CACHE_MAX
    /\ osvCache[1].key = EarlierKey(2)
    /\ \E r \in Requests :
           /\ Responded(r)
           /\ Len(requests[r].packages) = 1
           /\ requests[r].calls.oracle = 0


\* The packages of a started request whose key is in the cache.
Hits(req, cache) ==
    {i \in 1..Len(req.packages) :
        ~NoVersion(req.packages[i]) /\ CacheHas(cache, CacheKey(req.packages[i]))}

\* The packages of a started request that have a version.
Versioned(req) ==
    {i \in 1..Len(req.packages) : ~NoVersion(req.packages[i])}

\* C15: a query that starts while its key is in the cache (stored and not
\* evicted since) is done at once with the stored list, also an empty
\* one, has no timer, and sends no HTTP request: the request fetches for
\* its other versioned packages only.
C15_HitReturnsStoredList ==
    [][\A r \in Requests :
           requests[r].status = "idle" /\ requests'[r].status # "idle"
           => /\ \A i \in Hits(requests'[r], osvCache) :
                     /\ requests'[r].queries[i].state = "done"
                     /\ ~requests'[r].queries[i].timer
                     /\ requests'[r].queries[i].result =
                            OsvResult(CacheGet(osvCache,
                                CacheKey(requests'[r].packages[i])))
              /\ requests'[r].calls.oracle =
                     Cardinality(Versioned(requests'[r])
                                     \ Hits(requests'[r], osvCache))]_vars

\* A request has been answered from an empty stored list without a call of
\* the oracle.
C15_Witness ==
    \E r \in Requests :
        /\ Responded(r)
        /\ Len(requests[r].packages) = 1
        /\ requests[r].calls.oracle = 0
        /\ CacheHas(osvCache, CacheKey(requests[r].packages[1]))
        /\ CacheGet(osvCache, CacheKey(requests[r].packages[1])) = <<>>
        /\ requests[r].queries[1].result = OsvResult(<<>>)


(***************************************************************************)
(* Claims about oracle failures (SpecAssess)                               *)
(***************************************************************************)
\* The error strings of queryOsv; the oracle of the model fails with
\* status 500.
OsvErrors ==
    { "OSV API returned HTTP 500",
      "OSV lookup failed: request timed out",
      "OSV lookup failed: network error" }

\* The findings of a result of package-vuln that are about a package.
FindingsAbout(findings, pkg) ==
    SelectSeq(findings,
        LAMBDA f : startsWith(f.description,
                              Code(pkg.name \o "@" \o pkg.version)))

\* The query of package i failed, and package-vuln reported it in-band.
ReportedInBand(req, i, outcome) ==
    /\ req.queries[i].result.vulns = <<>>
    /\ req.queries[i].result.error \in OsvErrors
    /\ ~outcome.rejected
    /\ outcome.partial = "true"
    /\ Len(FindingsAbout(outcome.findings, req.packages[i])) = 1
    /\ FindingsAbout(outcome.findings, req.packages[i])[1].category
           = "package-vulnerability"
    /\ FindingsAbout(outcome.findings, req.packages[i])[1].severity = "medium"
    /\ endsWith(FindingsAbout(outcome.findings, req.packages[i])[1].description,
                "vulnerability status unknown")

\* The package-vuln analyzer has settled for the request.
PackageVulnSettled(req) ==
    \E k \in 1..Len(req.settled) : req.settled[k].index = PackageVulnIndex

\* C16 as claimed: every failed lookup resolves with empty vulns and one of
\* the three error strings, and the analyzer then emits exactly one medium
\* package-vulnerability finding for that package, whose description ends
\* with 'vulnerability status unknown', in a result with partial true.
C16_FailureReportedInBand ==
    \A r \in Requests :
        PackageVulnSettled(requests[r]) =>
            \A i \in 1..Len(requests[r].queries) :
                requests[r].queries[i].result.error # Absent
                    => ReportedInBand(requests[r], i,
                           SettledBy(requests[r], PackageVulnIndex))


\* The results of the queries of a request, with the result of query i
\* replaced by that of a lookup that succeeded without vulnerabilities.
HadSucceeded(req, i) ==
    [k \in 1..Len(req.queries) |->
        IF k = i THEN OsvResult(<<>>) ELSE req.queries[k].result]

\* The findings for the packages other than package i are those of
\* outcome, and the analyzer rejects as outcome does.
SameForOthers(req, i, actual, outcome) ==
    /\ actual.rejected = outcome.rejected
    /\ \A k \in 1..Len(req.packages) :
           k # i => FindingsAbout(actual.findings, req.packages[k])
                        = FindingsAbout(outcome.findings, req.packages[k])

\* When package-vuln has settled, a query that failed left the findings of
\* the other packages as they would be had it succeeded.
OthersUnaffected ==
    \A r \in Requests :
        PackageVulnSettled(requests[r]) =>
            \A i \in 1..Len(requests[r].queries) :
                requests[r].queries[i].result.error # Absent
                    => SameForOthers(requests[r], i,
                           SettledBy(requests[r], PackageVulnIndex),
                           Tagged(packageVulnSettle(requests[r].packages,
                                      HadSucceeded(requests[r], i)),
                                  "package-vuln"))

\* A query that is done has no timer armed.
TimersCleared ==
    \A r \in Requests :
        \A i \in 1..Len(requests[r].queries) :
            requests[r].queries[i].state = "done"
                => ~requests[r].queries[i].timer

\* A step of a running request ends at most one of its queries and keeps
\* what the analyzers have settled with.
OneQueryPerStep ==
    \A r \in Requests :
        requests[r].status = "running" =>
            /\ Cardinality({j \in 1..Len(requests[r].queries) :
                   requests'[r].queries[j] # requests[r].queries[j]}) <= 1
            /\ IsPrefix(requests[r].settled, requests'[r].settled)

\* C17: the timeout is per query: a timeout or failure of one query ends
\* that query only, leaves the findings of the other packages and of the
\* other analyzers as they would be had it succeeded, and a query that has
\* resolved has no timer left.
C17_TimeoutPerQuery ==
    /\ [](OthersUnaffected /\ TimersCleared)
    /\ [][OneQueryPerStep]_vars

\* A request of two packages has been answered after the query of one
\* timed out and the query of the other found a vulnerability.
C17_Witness ==
    \E r \in Requests :
        /\ Responded(r)
        /\ Len(requests[r].queries) = 2
        /\ requests[r].queries[1].result.error
               = "OSV lookup failed: request timed out"
        /\ requests[r].queries[2].result.vulns # <<>>
        /\ Len(SettledBy(requests[r], PackageVulnIndex).findings) = 2


(***************************************************************************)
(* Claims about single commands                                            *)
(***************************************************************************)
\* Some detail of the response has the category and the severity.
HasDetail(response, category, severity) ==
    \E k \in 1..Len(response.details) :
        /\ response.details[k].category = category
        /\ response.details[k].severity = severity

\* Request r was `sudo npm install express@4.16.0`, its query missed the
\* cache, and the oracle returned one vulnerability of CVSS score 7.0.
SudoInstallAnswered(r) ==
    /\ Responded(r)
    /\ requests[r].command = Chars("sudo npm install express@4.16.0")
    /\ requests[r].calls.oracle = 1
    /\ requests[r].queries[1].result =
           OsvResult(<<[id |-> "CVE-2024-0001",
                        severity |-> <<[type |-> "CVSS_V3",
                                        score |-> "7.0"]>>]>>)

\* C18 as claimed: for `sudo npm install express@4.16.0`, with the oracle
\* returning one vulnerability of CVSS score 7.0, the details contain a
\* permissions finding of severity high and a package-vulnerability finding
\* of severity high, and risk_level is critical.
C18_SudoInstallIsCritical ==
    \A r \in Requests :
        SudoInstallAnswered(r) =>
            /\ HasDetail(requests[r].response, "permissions", "high")
            /\ HasDetail(requests[r].response, "package-vulnerability", "high")
            /\ requests[r].response.risk_level = "critical"


(***************************************************************************)
(* Claims about the destructive analyzer (SpecDestructive)                 *)
(***************************************************************************)
\* The command is rm -rf with the target.
IsRmRf(target) == command = Chars("rm -rf ") \o target

\* text starts with prefix, both sequences of characters.
Begins(text, prefix) ==
    Len(text) >= Len(prefix) /\ SubSeq(text, 1, Len(prefix)) = prefix

\* The severity the specification gives rm -rf of a target.
SpecifiedRmSeverity(target) ==
    IF target \in {Chars("/"), Chars("/*")} THEN "critical"
    ELSE IF \/ target \in {Chars("~"), Chars("$HOME"), Chars(HomeDir)}
            \/ Begins(target, Chars("~/"))
    THEN "critical"
    ELSE IF target = Chars("*") THEN "high"
    ELSE "medium"

\* C19 as claimed: for every command rm -rf T run through parseCommand and
\* the destructive analyzer, exactly one finding is emitted, critical when
\* T is / or /*, critical when T is ~, starts with ~/, is $HOME or is the
\* home directory, high when T is *, and medium otherwise.
C19_RmRfSeverityByTarget ==
    \A target \in RmTargets :
        IsRmRf(target) /\ IsParsed =>
            /\ Len(allFindings) = 1
            /\ allFindings[1].severity = SpecifiedRmSeverity(target)


\* The command was parsed into one git segment.
IsGitSegment ==
    /\ IsParsed
    /\ ~parsed.threw
    /\ Len(parsed.results) = 1
    /\ parsed.results[1].verb = "git"

\* The args hold the token.
Holds(args, token) == \E i \in 1..Len(args) : args[i] = token

\* A force push: push together with -f, --force or --force-with-lease.
IsForcePush(args) ==
    /\ Holds(args, "push")
    /\ \/ Holds(args, "-f")
       \/ Holds(args, "--force")
       \/ Holds(args, "--force-with-lease")

\* Some token is main or master, or ends with /main or /master.
NamesMainBranch(args) ==
    \E i \in 1..Len(args) :
        \/ args[i] \in {"main", "master"}
        \/ endsWith(args[i], "/main")
        \/ endsWith(args[i], "/master")

\* C20 as claimed: a git segment that is a force push yields exactly one
\* finding of the destructive analyzer, critical when its args hold a
\* token equal to main or master or ending with /main or /master, and
\* high without such a token.
C20_ForcePushSeverity ==
    IsGitSegment /\ IsForcePush(parsed.results[1].args) =>
        /\ Len(allFindings) = 1
        /\ allFindings[1].severity =
               IF NamesMainBranch(parsed.results[1].args)
               THEN "critical" ELSE "high"


(***************************************************************************)
(* Claims about the sensitive-path analyzer (SpecSensitive)                *)
(***************************************************************************)
\* The tiers of the patterns, by glob.
CredentialGlobs ==
    {"~/.ssh/*", "~/.aws/*", "~/.config/gcloud/*", "*id_rsa*", "*.pem",
     "*.key"}
AgentGlobs == {"~/.claude/*", ".cursorrules", "CLAUDE.md"}
SystemAuthGlobs == {"/etc/shadow", "/etc/sudoers"}

\* The severity of the access/tier matrix.
MatrixSeverity(isWrite, glob) ==
    IF isWrite /\ glob \in CredentialGlobs \cup SystemAuthGlobs
    THEN "critical"
    ELSE IF isWrite /\ glob \in AgentGlobs THEN "high"
    ELSE IF ~isWrite /\ glob \in SystemAuthGlobs THEN "high"
    ELSE "medium"

\* The finding names the label of the pattern.
NamesPattern(finding, pattern) ==
    endsWith(finding.description, Dash \o pattern.label)

\* C21 as claimed: the severity of every sensitive-path finding follows
\* the access/tier matrix: a write to a credential or system-auth path is
\* critical, a write to an agent-tier path is high, any other write is
\* medium, a read of a system-auth path is high, any other read is medium.
C21_SeverityFollowsMatrix ==
    IsParsed =>
        \A i \in 1..Len(allFindings) :
            \A k \in 1..Len(DEFAULT_PATTERNS) :
                NamesPattern(allFindings[i], DEFAULT_PATTERNS[k])
                    => allFindings[i].severity =
                           MatrixSeverity(
                               startsWith(allFindings[i].description,
                                          "Writing to"),
                               DEFAULT_PATTERNS[k].glob)


\* The candidate paths of a segment: the non-flag arguments of a read or
\* write verb, and the targets of its redirects.
Candidates(cmd) ==
    (IF cmd.verb \in READ_VERBS \cup WRITE_VERBS
     THEN NonOptions(cmd.args) ELSE <<>>)
    \o [j \in 1..Len(cmd.redirects) |-> cmd.redirects[j].target]

\* The candidate paths of the segments that match a sensitive pattern.
SensitiveCandidates(cmds) ==
    SelectSeq(Flatten([i \in 1..Len(cmds) |-> Candidates(cmds[i])], 1),
              LAMBDA path : matchPath(path, DEFAULT_PATTERNS) # 0)

\* C29 as claimed: the sensitive-path analyzer emits exactly one finding
\* per candidate path that matches a sensitive pattern (non-flag arguments
\* of a read or write verb, and redirect targets whatever the verb), so
\* the findings of a segment are never more than its non-flag arguments
\* plus its redirects.
C29_OneFindingPerSensitivePath ==
    IsParsed /\ ~parsed.threw =>
        /\ Len(allFindings) = Len(SensitiveCandidates(parsed.results))
        /\ Len(parsed.results) = 1 =>
               Len(allFindings) <= Len(NonOptions(parsed.results[1].args))
                                       + Len(parsed.results[1].redirects)


(***************************************************************************)
(* Claims about the network analyzer (SpecNetwork)                         *)
(***************************************************************************)
\* Some finding of the list is high or critical.
HasHighOrCritical(findings) ==
    \E k \in 1..Len(findings) : findings[k].severity \in {"high", "critical"}

\* C22 as claimed: for every segment whose verb is nc, netcat or ncat,
\* whatever its arguments, its operator and its neighbours, the network
\* analyzer emits for that segment a finding of severity high or critical.
C22_RawSocketIsHigh ==
    IsParsed /\ ~parsed.threw =>
        /\ \A i \in 1..Len(parsed.results) :
               parsed.results[i].verb \in {"nc", "netcat", "ncat"}
                   => HasHighOrCritical(
                          NetworkStep(parsed.results, i, SAFE_HOSTS))
        /\ (\E i \in 1..Len(parsed.results) :
                parsed.results[i].verb \in {"nc", "netcat", "ncat"})
               => HasHighOrCritical(allFindings)


\* Segment i matches a sensitive-data pattern and is piped directly into
\* a segment whose verb is a network verb.
PipesSensitiveAt(cmds, i) ==
    /\ i < Len(cmds)
    /\ SensitiveData(Flat(cmds[i].rawSegment))
    /\ cmds[i].operator = "|"
    /\ cmds[i + 1].verb \in NETWORK_VERBS

\* Some finding of the list is critical.
HasCritical(findings) ==
    \E k \in 1..Len(findings) : findings[k].severity = "critical"

\* C25 as claimed: whenever a segment that matches a sensitive-data
\* pattern is piped directly into a segment whose verb is a network verb,
\* the findings of the network analyzer include a critical one, whatever
\* segments precede or follow the pair.
C25_SensitivePipeIsCritical ==
    IsParsed /\ ~parsed.threw =>
        \A i \in 1..Len(parsed.results) :
            PipesSensitiveAt(parsed.results, i) => HasCritical(allFindings)

\* C25, amended: the findings include a critical one when the network
\* segment of the pair is the last segment of the command, whatever
\* segments precede the pair.
C25_SensitivePipeIntoLastIsCritical ==
    /\ IsParsed
    /\ ~parsed.threw
    /\ Len(parsed.results) >= 2
    /\ PipesSensitiveAt(parsed.results, Len(parsed.results) - 1)
    => HasCritical(allFindings)

\* A command of three segments ends with a sensitive segment piped into a
\* network segment, and a critical finding was emitted.
C25_Witness ==
    /\ IsParsed
    /\ Len(parsed.results) = 3
    /\ parsed.results[1].operator = ";"
    /\ PipesSensitiveAt(parsed.results, 2)
    /\ HasCritical(allFindings)


(***************************************************************************)
(* Claims about allowlisted packages and malformed responses               *)
(***************************************************************************)
\* The name of the package, or its name@version, is in the allowlist.
PackageAllowlisted(pkg, allowlist) ==
    \E k \in 1..Len(allowlist) :
        \/ allowlist[k] = pkg.name
        \/ ~NoVersion(pkg) /\ allowlist[k] = pkg.name \o "@" \o pkg.version

\* C23 as claimed, for install commands: a package whose name or
\* name@version is listed in packageAllowlist is never looked up at the
\* oracle, and no finding is emitted for it.
C23_AllowlistedPackageSkipped ==
    \A r \in Requests :
        \A i \in 1..Len(requests[r].packages) :
            PackageAllowlisted(requests[r].packages[i],
                               config.packageAllowlist)
            => /\ requests[r].queries[i].state \notin {"fetching", "reading"}
               /\ requests[r].queries[i].result = OsvResult(<<>>)
               /\ FindingsAbout(requests[r].response.details,
                                requests[r].packages[i]) = <<>>


\* C24 as claimed: for every segment list and every oracle outcome, also
\* a 2xx response whose body is not of the documented shape, analyze of
\* every analyzer resolves with a result and never rejects, so the
\* response to a command the parser accepts is never the analysis-error
\* response.
C24_AnalyzersTotal ==
    \A r \in Requests :
        /\ \A k \in 1..Len(requests[r].settled) :
               ~requests[r].settled[k].value.rejected
        /\ requests[r].calls.analyzers > 0 => ~requests[r].response.isError


(***************************************************************************)
(* Claims about failed lookups and the cache (SpecCache)                   *)
(***************************************************************************)
\* The step ends a lookup with an error.
ErrorStep ==
    \E r \in Requests :
        \E i \in 1..Len(requests[r].queries) :
            /\ requests[r].queries[i].state \in {"fetching", "reading"}
            /\ requests'[r].queries[i].state = "done"
            /\ requests'[r].queries[i].result.error # Absent

\* C28: a lookup that ends in an error leaves the cache unchanged, only the
\* store step of a successful lookup changes the cache, and a query that
\* starts for a key the cache does not hold sends a request to the oracle.
C28_FailedLookupLeavesCache ==
    [][/\ ErrorStep => osvCache' = osvCache
       /\ osvCache' # osvCache => StoreStep
       /\ \A r \in Requests :
              requests[r].status = "idle" /\ requests'[r].status # "idle"
              => \A i \in Versioned(requests'[r]) \ Hits(requests'[r], osvCache) :
                     requests'[r].queries[i].state = "fetching"]_vars

\* A lookup of a key has failed, the cache does not hold the key, and
\* another request has sent a request to the oracle for the same key.
C28_Witness ==
    \E r, q \in Requests :
        /\ Responded(r)
        /\ Len(requests[r].queries) = 1
        /\ requests[r].queries[1].result.error # Absent
        /\ ~CacheHas(osvCache, CacheKey(requests[r].packages[1]))
        /\ q > r
        /\ requests[q].packages = requests[r].packages
        /\ requests[q].calls.oracle = 1

(***************************************************************************)
(* Claims about the logger (SpecLog).                                      *)
(***************************************************************************)
\* The entries the chains still hold, and the calls they belong to.
PendingWrites == UNION {Range(logger.chains[c]) : c \in 1..Len(logger.chains)}
PendingCalls == {e.call : e \in PendingWrites}

\* The entries whose mkdir or appendFile is running.
InProgress == {e \in PendingWrites : e.stage # "queued"}

\* The calls whose lines are in the file at path.
Written(path) == Range(logger.files[path])

\* The lines are in the order of their calls.
InCallOrder(lines) ==
    \A i, j \in 1..Len(lines) : i < j => lines[i] < lines[j]

\* initLogger has been called at most once.
OneLogger == logger.inits <= 1

\* With one initLogger: the lines of each file are in call order, at most one
\* write is in progress, and no line is both written and failed or pending.
Serialized ==
    OneLogger =>
        /\ \A p \in LogPaths : InCallOrder(logger.files[p])
        /\ Cardinality(InProgress) <= 1
        /\ \A p \in LogPaths :
               Written(p) \cap (logger.failed \cup PendingCalls) = {}
        /\ logger.failed \cap PendingCalls = {}

\* A step in which a write fails: the call returns nothing to its caller,
\* so all that changes is that the entry has left its chain; the files, the
\* path and the other entries stay.
FailureSwallowed ==
    (OneLogger /\ logger'.failed # logger.failed) =>
        /\ logger'.files = logger.files
        /\ logger'.logFilePath = logger.logFilePath
        /\ \E n \in PendingCalls :
               /\ logger'.failed = logger.failed \cup {n}
               /\ {e.call : e \in UNION {Range(logger'.chains[c]) :
                                  c \in 1..Len(logger'.chains)}}
                      = PendingCalls \ {n}

\* C26: log writes are serialized: after one initLogger(path) the lines
\* appended to the file appear in call order, at most one write is in
\* progress at any time, and a failed write is swallowed without preventing
\* later entries from being written: every entry handed to the chain leaves
\* it, written or failed.
C26_LogWritesSerialized ==
    /\ []Serialized
    /\ [][FailureSwallowed]_vars
    /\ \A n \in 1..MaxWrites :
           (OneLogger /\ n \in PendingCalls) ~> (n \notin PendingCalls)

\* After one initLogger a write failed and a later entry is in the file,
\* behind an earlier one.
C26_Witness ==
    /\ logger.inits = 1
    /\ \E p \in LogPaths :
           /\ Len(logger.files[p]) = 2
           /\ \E n \in logger.failed : n < logger.files[p][2]

\* C30: for any sequence of initLogger and writeLogEntry calls and any
\* interleaving of the writes they start, an entry written while a path is
\* configured is appended to that path with the parent directory created
\* first: no appendFile is started for a path whose directory is missing.
C30_DirectoryCreatedFirst ==
    \A e \in PendingWrites :
        e.stage = "append" => Dirname(e.path) \in logger.dirs

(***************************************************************************)
(* Claims about the dependency scan (SpecScan).                            *)
(***************************************************************************)
\* The packages of the manifest that have a version and that the allowlist
\* names neither by name nor by name@version, whatever the case.
Eligible ==
    {k \in 1..Len(scan.packages) :
        /\ scan.packages[k].version # ""
        /\ \A a \in scan.allowlist :
               /\ a # toLowerCase(scan.packages[k].name)
               /\ a # toLowerCase(scan.packages[k].name \o "@"
                                  \o scan.packages[k].version)}

\* How often the oracle was asked about a package.
QueriesFor(pkg) ==
    LET entries == {k \in 1..Len(scan.toCheck) : scan.toCheck[k] = pkg}
    IN  IF entries = {} THEN 0
        ELSE scan.queried[CHOOSE k \in entries : TRUE] + Cardinality(entries) - 1

\* At most CONCURRENCY_LIMIT queries are in flight.
BoundedInFlight == Cardinality(scan.inFlight) <= CONCURRENCY_LIMIT

\* The queries in flight belong to one batch, every query of the batches
\* before it has resolved, and no query of a later batch has started.
BatchesInTurn ==
    \A k \in 1..Len(scan.toCheck) :
        /\ k \in scan.inFlight => k \in Batch(scan.toCheck, scan.i)
        /\ k <= scan.i => scan.results[k] # NoResult /\ scan.queried[k] = 1
        /\ k > scan.i + CONCURRENCY_LIMIT => scan.queried[k] = 0

\* When the scan has ended, every eligible package was queried exactly once
\* and no other package was queried.
EachQueriedOnce ==
    scan.status \in {"done", "rejected"} =>
        \A k \in 1..Len(scan.packages) :
            QueriesFor(scan.packages[k]) = IF k \in Eligible THEN 1 ELSE 0

\* C27: while scanManifest checks the packages of a manifest, at most 10
\* oracle queries are in flight, the queries of a batch start only after
\* every query of the previous batch has resolved, and every non-allowlisted
\* package with a version is queried exactly once.
C27_BoundedBatchesEachOnce ==
    BoundedInFlight /\ BatchesInTurn /\ EachQueriedOnce

=============================================================================
